---- MODULE Spec2Model ----
(***************************************************************************)
(* A model of the dialog-graph traversal core of usnea: the graph query    *)
(* utilities (common/utils.ts), the semantic inference service             *)
(* (services/inference/semantic_inference_service.ts) and the preview      *)
(* session that drives it (components/preview/dialog_preview.ts).          *)
(*                                                                         *)
(* Scores and thresholds are real numbers in the program; the model keeps  *)
(* them as integers in hundredths (0.75 is 75, -1 is -100), which keeps    *)
(* every comparison the code makes.                                        *)
(***************************************************************************)
EXTENDS Integers, Sequences, FiniteSets, TLC

(***************************************************************************)
(* Bounds of the model.                                                    *)
(***************************************************************************)
MaxAttempts == 3
MaxFailCount == 3
MaxMutations == 2

(***************************************************************************)
(* Program constants (hundredths).                                         *)
(***************************************************************************)
TFJS_THRESHOLD == 75
BASE_THRESHOLD == -100
INITIAL_MAX_SCORE == -100
INITIAL_BEST_SCORE == 0

(***************************************************************************)
(* The data model of common/interfaces.ts.                                 *)
(***************************************************************************)
Keys == {"k1", "k2"}
Values == {"a", "b"}
Absent == "absent"
World == [Keys -> Values \cup {Absent}]
EmptyWorld == [k \in Keys |-> Absent]

\* An optional world argument: world?: Map<string, string>.
Supplied(w) == [defined |-> TRUE, map |-> w]
Undefined == [defined |-> FALSE, map |-> EmptyWorld]

NoEdge == 0
NoRule == 0

MutationType == {"ADD", "REMOVE"}
ConditionType == {"REQUIRE", "FORBID"}
EdgeRuleType == {"SEMANTIC_MATCH", "REPEATED_FAIL"}

Condition(t, k, v) == [conditionType |-> t, key |-> k, value |-> v]
Mutation(t, k, v) == [mutationType |-> t, key |-> k, value |-> v]
MatchCandidate(anti) == [antiExample |-> anti]
SemanticMatchRule(cands) ==
  [type |-> "SEMANTIC_MATCH", matchCandidates |-> cands, failCount |-> 0]
RepeatedFailRule(n) ==
  [type |-> "REPEATED_FAIL", matchCandidates |-> <<>>, failCount |-> n]
Edge(s, t, rules, conds, muts) ==
  [source |-> s, target |-> t, rules |-> rules, conditions |-> conds,
   mutations |-> muts]
Node(id, auto) == [id |-> id, autoAdvance |-> auto]

(***************************************************************************)
(* common/utils.ts                                                         *)
(***************************************************************************)

\* isRepeatedFail: the edge has at least one rule and only repeated fail rules.
isRepeatedFail(edge) ==
  /\ Len(edge.rules) > 0
  /\ \A i \in 1..Len(edge.rules) : edge.rules[i].type = "REPEATED_FAIL"

\* One condition of getOutEdges' inner loop, as the code tests it.
conditionFails(condition, map) ==
  IF condition.conditionType = "REQUIRE"
    THEN \/ map[condition.key] = Absent
         \/ map[condition.key] # condition.value
    ELSE \/ map[condition.key] # Absent
         \/ map[condition.key] = condition.value

\* passedConditions with the conditions OR-ed: one passing condition is enough.
passedConditions_AnyPasses(edge, world) ==
  IF world.defined /\ Len(edge.conditions) > 0
    THEN \E i \in 1..Len(edge.conditions) :
           ~conditionFails(edge.conditions[i], world.map)
    ELSE TRUE

\* passedConditions of getOutEdges for one edge.
passedConditions(edge, world) ==
  IF world.defined
    THEN \A i \in 1..Len(edge.conditions) :
           ~conditionFails(edge.conditions[i], world.map)
    ELSE TRUE

\* getOutEdges: the indices (in edge-list order) of the edges leaving the node
\* whose conditions pass under the world, when one is supplied.
getOutEdges(node, graph, world) ==
  SelectSeq([i \in 1..Len(graph.edges) |-> i],
            LAMBDA i : /\ graph.edges[i].source = node
                       /\ passedConditions(graph.edges[i], world))

\* getRepeatedFailEdges
getRepeatedFailEdges(node, graph) ==
  SelectSeq(getOutEdges(node, graph, Undefined),
            LAMBDA i : isRepeatedFail(graph.edges[i]))

(***************************************************************************)
(* services/inference/semantic_inference_service.ts                        *)
(***************************************************************************)

\* applyMutation with REMOVE left out.
applyMutation_RemoveIgnored(map, mutation) ==
  IF mutation.mutationType = "ADD"
    THEN [map EXCEPT ![mutation.key] = mutation.value]
    ELSE map

\* applyMutation with REMOVE deleting the key only when it holds the mutation's
\* value.
applyMutation_RemoveMatchingValue(map, mutation) ==
  IF mutation.mutationType = "ADD"
    THEN [map EXCEPT ![mutation.key] = mutation.value]
    ELSE IF map[mutation.key] = mutation.value
      THEN [map EXCEPT ![mutation.key] = Absent]
      ELSE map

\* world.set(key, value) and world.delete(key) for one mutation.
applyMutation(map, mutation) ==
  IF mutation.mutationType = "ADD"
    THEN [map EXCEPT ![mutation.key] = mutation.value]
    ELSE [map EXCEPT ![mutation.key] = Absent]

RECURSIVE applyMutationsFrom(_, _, _)
applyMutationsFrom(map, mutations, i) ==
  IF i > Len(mutations)
    THEN map
    ELSE applyMutationsFrom(applyMutation(map, mutations[i]), mutations, i + 1)

\* applyMutations: the edge's mutations, one after the other, in list order.
applyMutations(map, edge) == applyMutationsFrom(map, edge.mutations, 1)

\* The loop of checkSemanticMatchRule that finds the highest scoring candidate.
\* Candidates are numbered from 1; maxIndex 0 is the code's -1 (none found).
RECURSIVE findMax(_, _, _, _)
findMax(rule, scores, i, acc) ==
  IF i > Len(rule.matchCandidates)
    THEN acc
    ELSE findMax(rule, scores, i + 1,
                 IF scores[i] > acc.maxScore
                   THEN [maxIndex |-> i, maxScore |-> scores[i],
                         maxPositive |-> ~rule.matchCandidates[i].antiExample]
                   ELSE acc)

\* qualifyingScore without the anti-example test.
qualifyingScore_IgnoreAntiExample(found) ==
  [isNull |-> FALSE, value |-> found.maxScore]

\* What checkSemanticMatchRule returns when its top candidate is positive or not.
qualifyingScore(found) ==
  IF found.maxPositive
    THEN [isNull |-> FALSE, value |-> found.maxScore]
    ELSE [isNull |-> TRUE, value |-> 0]

\* checkSemanticMatchRule: scores are the scorer's answer for this rule's
\* candidates (no call is made, and scores is empty, for a rule without
\* candidates). threw: scoredCandidates[-1].topScore = true is a TypeError.
checkSemanticMatchRule(rule, scores) ==
  IF Len(rule.matchCandidates) = 0
    THEN [threw |-> FALSE, maxScore |-> [isNull |-> TRUE, value |-> 0],
          scoredCandidates |-> <<>>]
    ELSE LET found == findMax(rule, scores, 1,
                        [maxIndex |-> 0, maxScore |-> INITIAL_MAX_SCORE,
                         maxPositive |-> FALSE])
         IN  [threw |-> found.maxIndex = 0,
              maxScore |-> qualifyingScore(found),
              scoredCandidates |->
                [i \in 1..Len(rule.matchCandidates) |->
                   [candidate |-> i, score |-> scores[i],
                    topScore |-> i = found.maxIndex]]]

\* The (edge, rule) pairs the first loop of evaluate visits: the semantic match
\* rules of the eligible out edges, edge by edge and rule by rule.
semanticRulesOfEdge(graph, e) ==
  SelectSeq([r \in 1..Len(graph.edges[e].rules) |-> <<e, r>>],
            LAMBDA p : graph.edges[e].rules[p[2]].type = "SEMANTIC_MATCH")

RECURSIVE semanticRulesFrom(_, _, _)
semanticRulesFrom(graph, edges, i) ==
  IF i > Len(edges)
    THEN <<>>
    ELSE semanticRulesOfEdge(graph, edges[i])
           \o semanticRulesFrom(graph, edges, i + 1)

semanticRules(state, graph) ==
  semanticRulesFrom(graph, getOutEdges(state.node, graph, state.world), 1)

\* JavaScript truthiness of topScore: null and 0 are falsy.
truthy(score) == ~score.isNull /\ score.value # 0

\* The test that makes a rule the best one so far.
isNewBest(topScore, threshold, bestScore) ==
  /\ truthy(topScore)
  /\ topScore.value > threshold
  /\ topScore.value > bestScore

\* The first loop of evaluate, from the j-th semantic match rule on.
RECURSIVE scanSemanticRules(_, _, _, _, _, _)
scanSemanticRules(graph, pairs, scores, threshold, j, acc) ==
  IF j > Len(pairs) \/ acc.threw
    THEN acc
    ELSE
      LET edge == pairs[j][1]
          rule == pairs[j][2]
          semanticMatchResult ==
            checkSemanticMatchRule(graph.edges[edge].rules[rule], scores[j])
          topScore == semanticMatchResult.maxScore
          scored == Append(acc.scoredSemanticMatchRules,
                      [scoredCandidates |-> semanticMatchResult.scoredCandidates,
                       edge |-> edge, rule |-> rule, chosen |-> FALSE])
      IN  scanSemanticRules(graph, pairs, scores, threshold, j + 1,
            IF semanticMatchResult.threw
              THEN [acc EXCEPT !.threw = TRUE]
              ELSE IF isNewBest(topScore, threshold, acc.bestScore)
                THEN [threw |-> FALSE, bestScore |-> topScore.value,
                      bestEdge |-> edge, bestRule |-> rule,
                      bestSemanticMatchRuleIndex |-> j,
                      scoredSemanticMatchRules |-> scored]
                ELSE [acc EXCEPT !.scoredSemanticMatchRules = scored])

\* The (edge, rule) pairs the repeated fail loop of evaluate visits.
repeatedFailRulesOfEdge(graph, e) ==
  SelectSeq([r \in 1..Len(graph.edges[e].rules) |-> <<e, r>>],
            LAMBDA p : graph.edges[e].rules[p[2]].type = "REPEATED_FAIL")

RECURSIVE repeatedFailRulesFrom(_, _, _)
repeatedFailRulesFrom(graph, edges, i) ==
  IF i > Len(edges)
    THEN <<>>
    ELSE repeatedFailRulesOfEdge(graph, edges[i])
           \o repeatedFailRulesFrom(graph, edges, i + 1)

repeatedFailRules(node, graph) ==
  repeatedFailRulesFrom(graph, getRepeatedFailEdges(node, graph), 1)

\* repeatedFailReached with > for >=.
repeatedFailReached_Strict(attemptNumber, ruleData) ==
  attemptNumber > ruleData.failCount

\* The test of a repeated fail rule against the attempts so far.
repeatedFailReached(attemptNumber, ruleData) ==
  attemptNumber >= ruleData.failCount

\* What taking a repeated fail edge does to the result.
takeRepeatedFail(result, graph, edge, rule) ==
  [result EXCEPT !.state.attemptNumber = 0,
                 !.state.node = graph.edges[edge].target,
                 !.edge = edge,
                 !.rule = rule]

\* The repeated fail loop of evaluate, from the j-th repeated fail rule on.
RECURSIVE scanRepeatedFailRules(_, _, _, _)
scanRepeatedFailRules(graph, pairs, j, result) ==
  IF j > Len(pairs)
    THEN result
    ELSE
      LET edge == pairs[j][1]
          rule == pairs[j][2]
          ruleData == graph.edges[edge].rules[rule]
      IN  scanRepeatedFailRules(graph, pairs, j + 1,
            IF repeatedFailReached(result.state.attemptNumber, ruleData)
              THEN takeRepeatedFail(result, graph, edge, rule)
              ELSE result)

\* defaultResult without the increment of attemptNumber.
defaultResult_NoIncrement(state, scored) ==
  [threw |-> FALSE,
   state |-> [attemptNumber |-> state.attemptNumber,
              node |-> state.node,
              world |-> state.world],
   edge |-> NoEdge,
   rule |-> NoRule,
   scoredSemanticMatchRules |-> scored]

\* "Default output is that there is no transition."
defaultResult(state, scored) ==
  [threw |-> FALSE,
   state |-> [attemptNumber |-> state.attemptNumber + 1,
              node |-> state.node,
              world |-> state.world],
   edge |-> NoEdge,
   rule |-> NoRule,
   scoredSemanticMatchRules |-> scored]

\* takeSemanticMatch marking the first entry of the record, whichever rule won.
takeSemanticMatch_ChoosesFirstEntry(result, graph, best) ==
  [result EXCEPT
     !.scoredSemanticMatchRules[1].chosen = TRUE,
     !.state.attemptNumber = 0,
     !.state.node = graph.edges[best.bestEdge].target,
     !.edge = best.bestEdge,
     !.rule = best.bestRule,
     !.state.world =
        IF result.state.world.defined
          THEN Supplied(applyMutations(result.state.world.map,
                                       graph.edges[best.bestEdge]))
          ELSE result.state.world]

\* What a semantic match win does to the result.
takeSemanticMatch(result, graph, best) ==
  [result EXCEPT
     !.scoredSemanticMatchRules[best.bestSemanticMatchRuleIndex].chosen = TRUE,
     !.state.attemptNumber = 0,
     !.state.node = graph.edges[best.bestEdge].target,
     !.edge = best.bestEdge,
     !.rule = best.bestRule,
     !.state.world =
        IF result.state.world.defined
          THEN Supplied(applyMutations(result.state.world.map,
                                       graph.edges[best.bestEdge]))
          ELSE result.state.world]

\* The result of an evaluate call that threw.
thrown(state) ==
  [threw |-> TRUE, state |-> state, edge |-> NoEdge, rule |-> NoRule,
   scoredSemanticMatchRules |-> <<>>]

\* The semantic match rules evaluate gets through: all of them, or those before
\* the failAt-th when the scorer's answer to that one is a rejected promise
\* (failAt = 0: no scorer call fails).
NoFailure == 0

scannedRules(pairs, failAt) ==
  IF failAt = NoFailure THEN pairs ELSE SubSeq(pairs, 1, failAt - 1)

\* The first loop of evaluate over the out edges it found.
scanEdges(graph, edges, threshold, scores, failAt) ==
  scanSemanticRules(graph,
    scannedRules(semanticRulesFrom(graph, edges, 1), failAt), scores,
    threshold, 1,
    [threw |-> FALSE, bestScore |-> INITIAL_BEST_SCORE,
     bestEdge |-> NoEdge, bestRule |-> NoRule,
     bestSemanticMatchRuleIndex |-> 1,
     scoredSemanticMatchRules |-> <<>>])

\* evaluate from line 130 on: the result, once the scan is over.
decide(state, graph, best) ==
  LET result == defaultResult(state, best.scoredSemanticMatchRules)
  IN  IF best.bestEdge # NoEdge
        THEN takeSemanticMatch(result, graph, best)
        ELSE scanRepeatedFailRules(graph,
               repeatedFailRules(result.state.node, graph), 1, result)

\* evaluateOver with the mutations of the best edge so far applied during the
\* scan, before the scan is known to end well.
evaluateOver_MutateWhileScanning(state, edges, graph, ready, threshold, scores, failAt) ==
  IF ~ready
    THEN thrown(state)
    ELSE
      LET best == scanEdges(graph, edges, threshold, scores, failAt)
      IN  IF best.threw \/ failAt # NoFailure
            THEN thrown(IF best.bestEdge # NoEdge /\ state.world.defined
                          THEN [state EXCEPT !.world =
                                  Supplied(applyMutations(state.world.map,
                                             graph.edges[best.bestEdge]))]
                          ELSE state)
            ELSE decide(state, graph, best)

\* evaluate(utterance, state), given the out edges its first loop walks (edges)
\* and the state as its lines 130-165 read it (state). The utterance is seen
\* only through the scores the scorer gives, scores[j] for the j-th semantic
\* match rule visited. state.world holds the value of the state's Map; the
\* result's state.world is the value of that same Map when the call ends.
evaluateOver(state, edges, graph, ready, threshold, scores, failAt) ==
  IF ~ready
    THEN thrown(state)
    ELSE
      LET best == scanEdges(graph, edges, threshold, scores, failAt)
      IN  IF best.threw \/ failAt # NoFailure
            THEN thrown(state)
            ELSE decide(state, graph, best)

\* evaluate when nothing else runs between its steps.
evaluate(state, graph, ready, threshold, scores, failAt) ==
  evaluateOver(state, getOutEdges(state.node, graph, state.world), graph,
               ready, threshold, scores, failAt)

(***************************************************************************)
(* The graphs and scorers the model runs on.                               *)
(***************************************************************************)
Add(k, v) == Mutation("ADD", k, v)
Remove(k, v) == Mutation("REMOVE", k, v)
Require(k, v) == Condition("REQUIRE", k, v)
Forbid(k, v) == Condition("FORBID", k, v)

CondChoices ==
  { <<>>,
    <<Require("k1", "b")>>,
    <<Forbid("k1", "a")>>,
    <<Require("k1", "a"), Require("k2", "a")>>,
    <<Forbid("k2", "b"), Require("k1", "b")>> }

MutChoices ==
  { <<>>,
    <<Add("k2", "a")>>,
    <<Add("k1", "b"), Remove("k1", "b")>>,
    <<Remove("k2", "a"), Add("k2", "a")>> }

BaseParams ==
  [anti1 |-> FALSE, anti2 |-> TRUE, failCount |-> 2, cond |-> <<>>,
   mut |-> <<Add("k2", "a")>>, auto |-> FALSE, fallback |-> <<>>]

\* A second repeated fail edge of node 3, after the one every graph has.
LaterFallback(failCount) ==
  <<Edge(3, 4, <<RepeatedFailRule(failCount)>>, <<>>, <<>>)>>

\* One feature of the graph varies at a time.
Params ==
  {[BaseParams EXCEPT !.anti1 = a, !.anti2 = b] : a, b \in BOOLEAN}
    \cup {[BaseParams EXCEPT !.failCount = n] : n \in 0..MaxFailCount}
    \cup {[BaseParams EXCEPT !.cond = c] : c \in CondChoices}
    \cup {[BaseParams EXCEPT !.mut = m] : m \in MutChoices}
    \cup {[BaseParams EXCEPT !.auto = b] : b \in BOOLEAN}
    \cup {[BaseParams EXCEPT !.failCount = 1, !.fallback = LaterFallback(n)] :
            n \in 0..1}

GraphOf(p) ==
  [start |-> 1,
   nodes |-> <<Node(1, FALSE), Node(2, FALSE), Node(3, FALSE),
               Node(4, p.auto)>>,
   edges |-> <<
     Edge(1, 2, <<SemanticMatchRule(<<MatchCandidate(p.anti1),
                                      MatchCandidate(p.anti2)>>)>>,
          <<>>, <<Add("k1", "a"), Add("k2", "b")>>),
     Edge(1, 3, <<SemanticMatchRule(<<>>),
                  SemanticMatchRule(<<MatchCandidate(FALSE)>>)>>,
          <<>>, <<Add("k1", "b"), Remove("k2", "b")>>),
     Edge(2, 3, <<RepeatedFailRule(p.failCount)>>, p.cond, p.mut),
     Edge(3, 1, <<SemanticMatchRule(<<MatchCandidate(FALSE)>>),
                  SemanticMatchRule(<<MatchCandidate(FALSE)>>)>>,
          p.cond, p.mut),
     Edge(3, 4, <<SemanticMatchRule(<<MatchCandidate(FALSE)>>),
                  RepeatedFailRule(1)>>,
          <<>>, <<Remove("k1", "a")>>),
     Edge(3, 2, <<RepeatedFailRule(MaxFailCount), RepeatedFailRule(p.failCount)>>,
          <<>>, <<>>),
     Edge(4, 1, <<SemanticMatchRule(<<MatchCandidate(FALSE)>>)>>,
          <<Require("k2", "b")>>, <<Add("k2", "a")>>),
     Edge(4, 3, <<SemanticMatchRule(<<MatchCandidate(FALSE)>>)>>,
          <<Require("k2", "b"), Forbid("k1", "a")>>, <<>>) >>
     \o p.fallback]

Graphs == {GraphOf(p) : p \in Params}

\* Thresholds of the scorers: the TFJS scorer's and the base class's.
Thresholds == {TFJS_THRESHOLD, BASE_THRESHOLD}

\* The scores a scorer may give a candidate (hundredths).
Scores == {-100, 0, 75, 80}

\* Every answer of the scorer to the calls of one evaluate: one list of scores
\* per semantic match rule visited, as long as the rule's candidate list.
RECURSIVE ScoreChoicesFrom(_, _, _)
ScoreChoicesFrom(graph, pairs, j) ==
  IF j > Len(pairs)
    THEN {<<>>}
    ELSE LET n == Len(graph.edges[pairs[j][1]].rules[pairs[j][2]].matchCandidates)
         IN  {<<h>> \o t : h \in [1..n -> Scores],
                           t \in ScoreChoicesFrom(graph, pairs, j + 1)}

\* The calls of semanticSimilarity that can fail: one per semantic match rule
\* with candidates.
FailChoices(graph, pairs) ==
  {NoFailure} \cup
    {j \in 1..Len(pairs) :
       Len(graph.edges[pairs[j][1]].rules[pairs[j][2]].matchCandidates) > 0}

\* What the scorer does during one evaluate: nothing when it is not ready (no
\* call is made), else scores for every call up to the one that fails, if any.
ScorerAnswers(graph, pairs, ready) ==
  IF ~ready
    THEN {[scores |-> <<>>, failAt |-> NoFailure]}
    ELSE UNION {{[scores |-> s, failAt |-> f] :
                   s \in ScoreChoicesFrom(graph, scannedRules(pairs, f), 1)} :
                f \in FailChoices(graph, pairs)}

(***************************************************************************)
(* components/preview/dialog_preview.ts                                    *)
(***************************************************************************)
VARIABLES
  graph,                  \* graphService.graph
  threshold,              \* semanticMatchService.getThreshold()
  modelReady,             \* semanticMatchService.ready()
  worlds,                 \* the two Maps made by ngOnInit, by reference
  inferenceState,         \* this.inferenceState (world: a reference)
  initialInferenceState,  \* this.initialInferenceState
  finished,               \* this.finished
  loadingResults,         \* this.loadingResults
  pc,                     \* the handler suspended inside autoAdvanceAsNeeded
  calls,                  \* evaluate calls completed since arriving at the node
  last                    \* the last evaluate call: its input and its result

\* The state of the runs of single functions (further down).
VARIABLES
  mutationRun,            \* one call of applyMutations: its input and result
  layoutRun,              \* one call of dagLayout: its input, locals and result
  serializationRun,       \* a graph taken through the two conversions
  editor,                 \* the graph under the editor's operations
  dialogPreview           \* the preview component with its state objects

\* The handlers of the preview as the event loop runs them, await by await.
VARIABLES
  tasks,                  \* the handler invocations that have not ended
  started,                \* submitUtterance and restart invocations so far
  event,                  \* what the last step of a handler did
  inputDisabledWhileLoading  \* the page disables its input while loadingResults

vars ==
  <<graph, threshold, modelReady, worlds, inferenceState,
    initialInferenceState, finished, loadingResults, pc, calls, last,
    mutationRun, layoutRun, serializationRun, editor, dialogPreview, tasks,
    started, event, inputDisabledWhileLoading>>

\* What the preview session, run handler by handler, leaves alone.
functionRuns ==
  <<mutationRun, layoutRun, serializationRun, editor, dialogPreview>>
taskVars == <<tasks, started, event, inputDisabledWhileLoading>>
NoRun == [phase |-> "none"]
NoEvent == [kind |-> "none"]

WorldRefs == {"session", "initial"}
NoCall == [kind |-> "none"]

\* The state evaluate is given, with the value of the Map it refers to.
deref(state, heap) ==
  [node |-> state.node, attemptNumber |-> state.attemptNumber,
   world |-> Supplied(heap[state.world])]

\* ngOnInit, up to its call of autoAdvanceAsNeeded, for a route that names no
\* node: the session starts at graph.start.
Init ==
  /\ graph \in Graphs
  /\ threshold \in Thresholds
  /\ modelReady = FALSE
  /\ worlds = [r \in WorldRefs |-> EmptyWorld]
  /\ \E node \in {graph.start} :
       /\ inferenceState =
            [node |-> node, attemptNumber |-> 0, world |-> "session"]
       /\ initialInferenceState =
            [node |-> node, attemptNumber |-> 0, world |-> "initial"]
  /\ finished = FALSE
  /\ loadingResults = FALSE
  /\ pc = "ngOnInit"
  /\ calls = 0
  /\ last = NoCall
  /\ mutationRun = NoRun
  /\ layoutRun = NoRun
  /\ serializationRun = NoRun
  /\ editor = NoRun
  /\ dialogPreview = NoRun
  /\ tasks = {}
  /\ started = 0
  /\ event = NoEvent
  /\ inputDisabledWhileLoading = FALSE

\* TFJSSemanticMatchService.loadUniversalSentenceEncoder completes.
LoadModel ==
  /\ ~modelReady
  /\ modelReady' = TRUE
  /\ last' = NoCall
  /\ UNCHANGED <<graph, threshold, worlds, inferenceState,
                 initialInferenceState, finished, loadingResults, pc, calls>>
  /\ UNCHANGED <<functionRuns, taskVars>>

isLeafNode(state, heap) ==
  Len(getOutEdges(state.node, graph, Supplied(heap[state.world]))) = 0

\* submitUtterance, up to its call of autoAdvanceAsNeeded (or to its end).
\* The Map evaluate was given holds what evaluate did to it, whether evaluate
\* returned or threw; the session's state is assigned only when it returned.
SubmitUtterance ==
  /\ pc = "idle"
  /\ inferenceState.attemptNumber < MaxAttempts
  /\ LET state == deref(inferenceState, worlds)
     IN  \E answer \in ScorerAnswers(graph, semanticRules(state, graph),
                                     modelReady) :
           \E result \in {evaluate(state, graph, modelReady, threshold,
                                    answer.scores, answer.failAt)} :
               /\ last' = [kind |-> "evaluate", state |-> state,
                           scores |-> answer.scores, failAt |-> answer.failAt,
                           result |-> result,
                           outEdges |-> getOutEdges(state.node, graph,
                                                    state.world),
                           nth |-> calls + 1]
               /\ loadingResults' = result.threw
               /\ worlds' = [worlds EXCEPT
                               ![inferenceState.world] = result.state.world.map]
               /\ IF result.threw
                    THEN UNCHANGED <<inferenceState, pc, calls>>
                    ELSE /\ inferenceState' =
                              [node |-> result.state.node,
                               attemptNumber |-> result.state.attemptNumber,
                               world |-> inferenceState.world]
                         /\ pc' = IF result.edge # NoEdge
                                    THEN "submitUtterance" ELSE "idle"
                         /\ calls' = IF result.edge # NoEdge
                                       THEN 0 ELSE calls + 1
  /\ UNCHANGED <<graph, threshold, modelReady, initialInferenceState, finished>>
  /\ UNCHANGED <<functionRuns, taskVars>>

\* One turn of the loop of autoAdvanceAsNeeded.
AutoAdvance ==
  /\ pc # "idle"
  /\ graph.nodes[inferenceState.node].autoAdvance
  /\ LET edges == getOutEdges(inferenceState.node, graph,
                              Supplied(worlds[inferenceState.world]))
     IN  IF Len(edges) = 0
           THEN /\ pc' = "idle"
                /\ UNCHANGED <<worlds, inferenceState>>
           ELSE \E i \in 1..Len(edges) :
                  /\ worlds' = [worlds EXCEPT
                                  ![inferenceState.world] =
                                     applyMutations(@, graph.edges[edges[i]])]
                  /\ inferenceState' =
                       [inferenceState EXCEPT
                          !.node = graph.edges[edges[i]].target]
                  /\ UNCHANGED pc
  /\ calls' = 0
  /\ last' = NoCall
  /\ UNCHANGED <<graph, threshold, modelReady, initialInferenceState, finished,
                 loadingResults>>
  /\ UNCHANGED <<functionRuns, taskVars>>

\* autoAdvanceAsNeeded returns, and the handler that called it runs to its end.
AutoAdvanceReturn ==
  /\ pc # "idle"
  /\ ~graph.nodes[inferenceState.node].autoAdvance
  /\ finished' = IF pc = "submitUtterance" /\ isLeafNode(inferenceState, worlds)
                   THEN TRUE ELSE finished
  /\ pc' = "idle"
  /\ last' = NoCall
  /\ UNCHANGED <<graph, threshold, modelReady, worlds, inferenceState,
                 initialInferenceState, loadingResults, calls>>
  /\ UNCHANGED <<functionRuns, taskVars>>

\* restart, up to its call of autoAdvanceAsNeeded.
Restart ==
  /\ pc = "idle"
  /\ finished' = FALSE
  /\ inferenceState' = initialInferenceState
  /\ pc' = "restart"
  /\ calls' = 0
  /\ last' = NoCall
  /\ UNCHANGED <<graph, threshold, modelReady, worlds, initialInferenceState,
                 loadingResults>>
  /\ UNCHANGED <<functionRuns, taskVars>>

\* A session without restarts.
Next ==
  \/ LoadModel
  \/ SubmitUtterance
  \/ AutoAdvance
  \/ AutoAdvanceReturn

Spec == Init /\ [][Next]_vars

\* A session with restarts.
SessionNext ==
  \/ Next
  \/ Restart

SessionSpec == Init /\ [][SessionNext]_vars

(***************************************************************************)
(* What the properties below speak of: the last evaluate call that         *)
(* returned, its input state (pre) and its result (res), and the           *)
(* documented meaning of conditions and mutations.                         *)
(***************************************************************************)
Evaluated == last.kind = "evaluate" /\ ~last.result.threw
pre == last.state
res == last.result

EdgesFrom(node) == {i \in 1..Len(graph.edges) : graph.edges[i].source = node}

\* The rule the result names is of the given type.
TookRuleOfType(type) ==
  /\ res.edge # NoEdge
  /\ res.rule # NoRule
  /\ graph.edges[res.edge].rules[res.rule].type = type

\* A condition as documented: Require passes iff world[key] = value, Forbid
\* passes iff not (world[key] = value).
ConditionHolds(condition, map) ==
  IF condition.conditionType = "REQUIRE"
    THEN map[condition.key] = condition.value
    ELSE map[condition.key] # condition.value

\* A mutation list applied in order, key by key: the last mutation of a key
\* decides its value, and a key without mutation keeps its value.
MutatedWorld(map, mutations) ==
  [k \in Keys |->
     LET touching == {i \in 1..Len(mutations) : mutations[i].key = k}
     IN  IF touching = {}
           THEN map[k]
           ELSE LET final == CHOOSE i \in touching : \A o \in touching : o <= i
                IN  IF mutations[final].mutationType = "ADD"
                      THEN mutations[final].value
                      ELSE Absent]

\* The session holds what the last evaluate call returned.
SessionHoldsResult ==
  /\ inferenceState.node = res.state.node
  /\ inferenceState.attemptNumber = res.state.attemptNumber
  /\ worlds[inferenceState.world] = res.state.world.map

(***************************************************************************)
(* C1: repeated-fail timing.                                               *)
(***************************************************************************)
\* The node's only outgoing edge carries a single RepeatedFail rule, failCount >= 1.
OnlyRepeatedFailFrom(node) ==
  /\ Cardinality(EdgesFrom(node)) = 1
  /\ \A i \in EdgesFrom(node) :
       /\ Len(graph.edges[i].rules) = 1
       /\ graph.edges[i].rules[1].type = "REPEATED_FAIL"
       /\ graph.edges[i].rules[1].failCount >= 1

TheEdgeFrom(node) == CHOOSE i \in EdgesFrom(node) : TRUE
FailCountAt(node) == graph.edges[TheEdgeFrom(node)].rules[1].failCount

StayedAfter(n) ==
  /\ res.edge = NoEdge
  /\ res.state.node = pre.node
  /\ res.state.attemptNumber = n

TookFallback ==
  /\ res.edge = TheEdgeFrom(pre.node)
  /\ res.rule = 1
  /\ res.state.node = graph.edges[res.edge].target
  /\ res.state.attemptNumber = 0

C2_FallbackMutationsApplied ==
  (Evaluated /\ TookRuleOfType("REPEATED_FAIL")) =>
     res.state.world.map =
       MutatedWorld(pre.world.map, graph.edges[res.edge].mutations)

(***************************************************************************)
(* C3: conditions of a RepeatedFail fallback edge.                         *)
(***************************************************************************)
\* C3: an edge taken as the RepeatedFail fallback has all its conditions
\* passing under the world of the call.
C3_FallbackConditionsPass ==
  (Evaluated /\ TookRuleOfType("REPEATED_FAIL")) =>
     \A c \in 1..Len(graph.edges[res.edge].conditions) :
        ConditionHolds(graph.edges[res.edge].conditions[c], pre.world.map)

(***************************************************************************)
(* C4: Forbid gating.                                                      *)
(***************************************************************************)
InSeq(x, seq) == \E i \in 1..Len(seq) : seq[i] = x

\* C4: an edge of the node whose condition is Forbid(k, v) is left out of
\* getOutEdges(node, graph, world) when world[k] = v and is in it when k is
\* absent or has another value.
C4_ForbidGating ==
  last.kind = "evaluate" =>
     \A i \in EdgesFrom(pre.node) :
        (/\ Len(graph.edges[i].conditions) = 1
         /\ graph.edges[i].conditions[1].conditionType = "FORBID")
        => (InSeq(i, last.outEdges)
              <=> pre.world.map[graph.edges[i].conditions[1].key]
                    # graph.edges[i].conditions[1].value)

(***************************************************************************)
(* C5: Require gating, AND semantics.                                      *)
(***************************************************************************)
RequireOnly(edge) ==
  \A c \in 1..Len(edge.conditions) :
     edge.conditions[c].conditionType = "REQUIRE"

SomeRequireFails(edge, map) ==
  \E c \in 1..Len(edge.conditions) :
     /\ edge.conditions[c].conditionType = "REQUIRE"
     /\ ~ConditionHolds(edge.conditions[c], map)

Scored == res.scoredSemanticMatchRules
CandidatesOf(j) == graph.edges[Scored[j].edge].rules[Scored[j].rule].matchCandidates

\* The first index holding the maximum of a non-empty score list.
FirstMaxIndex(scores) ==
  CHOOSE i \in 1..Len(scores) :
    /\ \A k \in 1..Len(scores) : scores[k] <= scores[i]
    /\ \A k \in 1..(i - 1) : scores[k] < scores[i]

TopCandidate(j) == FirstMaxIndex(last.scores[j])
TopScore(j) == last.scores[j][TopCandidate(j)]
TopIsAntiExample(j) ==
  /\ Len(CandidatesOf(j)) > 0
  /\ CandidatesOf(j)[TopCandidate(j)].antiExample

\* The rule has a qualifying score: its top candidate is not an anti-example.
Qualifies(j) ==
  /\ Len(CandidatesOf(j)) > 0
  /\ ~CandidatesOf(j)[TopCandidate(j)].antiExample

\* Rule j is the edge and rule the result returns.
Won(j) == res.edge = Scored[j].edge /\ res.rule = Scored[j].rule

(***************************************************************************)
(* C6: anti-example exclusion.                                             *)
(***************************************************************************)
\* C6: a SemanticMatch rule whose highest-scoring candidate is an anti-example
\* is never the winning rule of an evaluate call, whatever its scores.
C6_AntiExampleExcluded ==
  Evaluated =>
     \A j \in 1..Len(Scored) :
        TopIsAntiExample(j) => (~Won(j) /\ ~Scored[j].chosen)

\* A rule's top candidate is an anti-example above the threshold while a
\* positive candidate of the same rule is above the threshold too.
C6_Witness ==
  /\ Evaluated
  /\ \E j \in 1..Len(Scored) :
        /\ TopIsAntiExample(j)
        /\ TopScore(j) > threshold
        /\ \E c \in 1..Len(CandidatesOf(j)) :
              /\ ~CandidatesOf(j)[c].antiExample
              /\ last.scores[j][c] > threshold

(***************************************************************************)
(* C7: threshold boundary.                                                 *)
(***************************************************************************)
\* C7: a rule whose qualifying score equals the threshold does not win; a rule
\* whose qualifying score is above the threshold and that is the only
\* qualifying rule wins.
C7_ThresholdBoundary ==
  Evaluated =>
     \A j \in 1..Len(Scored) :
        /\ (Qualifies(j) /\ TopScore(j) = threshold) => ~Won(j)
        /\ (/\ Qualifies(j)
            /\ TopScore(j) > threshold
            /\ \A o \in 1..Len(Scored) : o # j => ~Qualifies(o))
           => Won(j)

(***************************************************************************)
(* C8: winner selection.                                                   *)
(***************************************************************************)
AboveThreshold == {j \in 1..Len(Scored) : Qualifies(j) /\ TopScore(j) > threshold}

\* C8: the winner of evaluate is the first rule, in edge-then-rule order, that
\* holds the maximum qualifying score, provided that score exceeds the
\* threshold; there is no semantic winner iff no qualifying score exceeds it.
C8_WinnerIsFirstMaximum ==
  Evaluated =>
     IF AboveThreshold = {}
       THEN ~TookRuleOfType("SEMANTIC_MATCH")
       ELSE LET w == CHOOSE j \in AboveThreshold :
                        /\ \A o \in AboveThreshold : TopScore(o) <= TopScore(j)
                        /\ \A o \in AboveThreshold :
                              o < j => TopScore(o) < TopScore(j)
            IN  Won(w)

(***************************************************************************)
(* C9: the step of a semantic win.                                         *)
(***************************************************************************)
\* C9: when a SemanticMatch rule wins, the returned state is at the winning
\* edge's target with attemptNumber 0, the returned edge and rule are those of
\* the one entry marked chosen, and the world is the pre-step world with the
\* winning edge's mutations applied in list order; the session holds that state.
C9_SemanticWinStep ==
  (Evaluated /\ TookRuleOfType("SEMANTIC_MATCH")) =>
     /\ res.state.node = graph.edges[res.edge].target
     /\ res.state.attemptNumber = 0
     /\ \E j \in 1..Len(Scored) : Scored[j].chosen
     /\ \A j \in 1..Len(Scored) : Scored[j].chosen <=> Won(j)
     /\ res.state.world.map =
          MutatedWorld(pre.world.map, graph.edges[res.edge].mutations)
     /\ SessionHoldsResult

\* A semantic win over an edge whose mutations add one key and remove another
\* that was present.
C9_Witness ==
  /\ Evaluated
  /\ TookRuleOfType("SEMANTIC_MATCH")
  /\ \E a, r \in 1..Len(graph.edges[res.edge].mutations) :
        /\ graph.edges[res.edge].mutations[a].mutationType = "ADD"
        /\ graph.edges[res.edge].mutations[r].mutationType = "REMOVE"
        /\ pre.world.map[graph.edges[res.edge].mutations[r].key] # Absent
        /\ graph.edges[res.edge].mutations[a].key
             # graph.edges[res.edge].mutations[r].key
  /\ res.state.world.map # pre.world.map

(***************************************************************************)
(* C10: the step without winner.                                           *)
(***************************************************************************)
\* C10: when evaluate selects neither a SemanticMatch rule nor a RepeatedFail
\* rule, it returns no edge and no rule, the same node, attemptNumber + 1 and
\* the world unchanged, and marks no rule chosen; the session holds that state.
C10_NoWinnerStep ==
  (Evaluated /\ ~TookRuleOfType("SEMANTIC_MATCH")
             /\ ~TookRuleOfType("REPEATED_FAIL")) =>
     /\ res.edge = NoEdge
     /\ res.rule = NoRule
     /\ res.state.node = pre.node
     /\ res.state.attemptNumber = pre.attemptNumber + 1
     /\ res.state.world = pre.world
     /\ \A j \in 1..Len(Scored) : ~Scored[j].chosen
     /\ SessionHoldsResult
     /\ pc = "idle"

\* A second failed attempt in a row, in a world that is not empty, with a rule
\* scored below the threshold.
C10_Witness ==
  /\ Evaluated
  /\ res.edge = NoEdge
  /\ pre.attemptNumber = 1
  /\ res.state.attemptNumber = 2
  /\ pre.world.map # EmptyWorld
  /\ \E j \in 1..Len(Scored) : Qualifies(j) /\ TopScore(j) < threshold

(***************************************************************************)
(* The preview session left out: the values its variables keep while a     *)
(* single function is run on inputs of its own.                            *)
(***************************************************************************)
SessionUnused ==
  /\ graph = GraphOf(BaseParams)
  /\ threshold = TFJS_THRESHOLD
  /\ modelReady = FALSE
  /\ worlds = [r \in WorldRefs |-> EmptyWorld]
  /\ inferenceState = [node |-> 1, attemptNumber |-> 0, world |-> "session"]
  /\ initialInferenceState =
       [node |-> 1, attemptNumber |-> 0, world |-> "initial"]
  /\ finished = FALSE
  /\ loadingResults = FALSE
  /\ pc = "idle"
  /\ calls = 0
  /\ last = NoCall
  /\ tasks = {}
  /\ started = 0
  /\ event = NoEvent
  /\ inputDisabledWhileLoading = FALSE
  /\ dialogPreview = NoRun

sessionVars ==
  <<graph, threshold, modelReady, worlds, inferenceState,
    initialInferenceState, finished, loadingResults, pc, calls, last,
    tasks, started, event, inputDisabledWhileLoading, dialogPreview>>

(***************************************************************************)
(* applyMutations on every world and every mutation list up to             *)
(* MaxMutations long.                                                      *)
(***************************************************************************)
Mutations == {Mutation(t, k, v) : t \in MutationType, k \in Keys, v \in Values}

MutationLists == UNION {[1..n -> Mutations] : n \in 0..MaxMutations}

MutationInit ==
  /\ SessionUnused
  /\ layoutRun = NoRun
  /\ serializationRun = NoRun
  /\ editor = NoRun
  /\ \E w \in World, ms \in MutationLists :
       mutationRun = [phase |-> "called", world |-> w, mutations |-> ms,
                      result |-> w]

\* applyMutations(world, edge) runs on the Map, which then holds the result.
ApplyMutations ==
  /\ mutationRun.phase = "called"
  /\ mutationRun' =
       [mutationRun EXCEPT
          !.phase = "returned",
          !.result = applyMutations(mutationRun.world,
                       Edge(1, 2, <<>>, <<>>, mutationRun.mutations))]
  /\ UNCHANGED <<sessionVars, layoutRun, serializationRun, editor>>

MutationNext == ApplyMutations

MutationSpec == MutationInit /\ [][MutationNext]_vars

(***************************************************************************)
(* C11: mutations are applied one after the other, in list order.          *)
(***************************************************************************)
\* C11: applyMutations leaves every key with what the last mutation of the list
\* that names it did (Add(k, v): world[k] = v; Remove(k): k absent, whatever
\* k's value and the mutation's value field) and every other key as it was;
\* so [Add(k, v), Remove(k)] ends without k and [Remove(k), Add(k, v)] ends with
\* world[k] = v, on any world.
C11_MutationsInListOrder ==
  mutationRun.phase = "returned" =>
     LET ms == mutationRun.mutations
         before == mutationRun.world
         after == mutationRun.result
     IN  /\ after = MutatedWorld(before, ms)
         /\ \A k \in Keys :
               (\A i \in 1..Len(ms) : ms[i].key # k) => after[k] = before[k]
         /\ (/\ Len(ms) = 2
             /\ ms[1].key = ms[2].key
             /\ ms[1].mutationType = "ADD"
             /\ ms[2].mutationType = "REMOVE") => after[ms[1].key] = Absent
         /\ (/\ Len(ms) = 2
             /\ ms[1].key = ms[2].key
             /\ ms[1].mutationType = "REMOVE"
             /\ ms[2].mutationType = "ADD") => after[ms[1].key] = ms[2].value

\* [Add(k1, "a"), Remove(k1) with value field "b"] ran on a world holding both
\* keys: k1 is gone and k2 is as it was.
C11_Witness ==
  /\ mutationRun.phase = "returned"
  /\ mutationRun.mutations = <<Add("k1", "a"), Remove("k1", "b")>>
  /\ mutationRun.world = [k \in Keys |-> "b"]
  /\ mutationRun.result = [k \in Keys |-> IF k = "k1" THEN Absent ELSE "b"]

(***************************************************************************)
(* C13: a step whose evaluate fails changes nothing.                       *)
(***************************************************************************)
Failed == last.kind = "evaluate" /\ last.result.threw

\* C13: when evaluate fails, because the scorer is not ready (and then without
\* any scorer call) or because a scorer call fails part-way through the scan,
\* the session's world, node and attemptNumber are those the step started from.
C13_ScorerFailureChangesNothing ==
  Failed =>
     /\ worlds[inferenceState.world] = pre.world.map
     /\ inferenceState.node = pre.node
     /\ inferenceState.attemptNumber = pre.attemptNumber
     /\ res.state = pre
     /\ res.edge = NoEdge
     /\ ~modelReady => last.scores = <<>>

\* The scorer failed on a later call after an earlier rule, on an edge with
\* mutations that would change the world, had scored above the threshold.
C13_Witness ==
  /\ Failed
  /\ last.failAt >= 2
  /\ LET pairs == semanticRules(pre, graph)
     IN  \E j \in 1..(last.failAt - 1) :
            LET edge == graph.edges[pairs[j][1]]
                rule == edge.rules[pairs[j][2]]
            IN  /\ Len(rule.matchCandidates) > 0
                /\ \A c \in 1..Len(rule.matchCandidates) :
                      /\ ~rule.matchCandidates[c].antiExample
                      /\ last.scores[j][c] > threshold
                      /\ last.scores[j][c] > 0
                /\ applyMutations(pre.world.map, edge) # pre.world.map

(***************************************************************************)
(* The preview, handler by handler. ngOnInit, submitUtterance and restart  *)
(* are async: each runs up to its next await, and between two awaits of    *)
(* one handler the steps of the others, and new invocations, may run.      *)
(* The awaits are those of addTranscriptItem (the typewriter) and of       *)
(* evaluate (the scorer).                                                  *)
(***************************************************************************)
MaxHandlers == 2
MaxTasks == 2

\* A graph with auto-advance nodes (2, 3), a choice of two edges at one of them,
\* an auto-advance node with no eligible edge unless k1 = "a" (3), and a leaf (5).
PreviewGraph ==
  [start |-> 1,
   nodes |-> <<Node(1, FALSE), Node(2, TRUE), Node(3, TRUE), Node(4, FALSE),
               Node(5, FALSE)>>,
   edges |-> <<
     Edge(1, 2, <<SemanticMatchRule(<<MatchCandidate(FALSE)>>)>>,
          <<>>, <<Add("k1", "a")>>),
     Edge(1, 3, <<SemanticMatchRule(<<MatchCandidate(FALSE)>>)>>,
          <<>>, <<Add("k2", "b")>>),
     Edge(2, 3, <<>>, <<>>, <<Add("k2", "a")>>),
     Edge(2, 4, <<>>, <<>>, <<Add("k2", "b"), Remove("k1", "a")>>),
     Edge(3, 4, <<>>, <<Require("k1", "a")>>, <<Add("k1", "b")>>),
     Edge(4, 5, <<SemanticMatchRule(<<MatchCandidate(FALSE)>>)>>,
          <<>>, <<>>),
     Edge(4, 1, <<RepeatedFailRule(1)>>, <<>>, <<>>) >>]

\* A local variable holding an InferenceState object: the object
\* this.inferenceState refers to (current), or one it no longer refers to,
\* which nothing changes any more.
NoState == [node |-> 0, attemptNumber |-> 0, world |-> "session"]
Current == [current |-> TRUE, value |-> NoState]
Detached(value) == [current |-> FALSE, value |-> value]

read(local) == IF local.current THEN inferenceState ELSE local.value

\* this.inferenceState is assigned another object: the locals that referred
\* to the old one keep it.
detach(ts) ==
  {[t EXCEPT !.state = IF @.current THEN Detached(inferenceState) ELSE @] :
     t \in ts}

\* The session as a step finds it.
Snapshot ==
  [node |-> inferenceState.node,
   attemptNumber |-> inferenceState.attemptNumber,
   world |-> worlds[inferenceState.world]]

Task(id, handler, at) ==
  [id |-> id, handler |-> handler, at |-> at, edges |-> <<>>,
   state |-> Detached(NoState), before |-> Snapshot, alone |-> tasks = {}]

Overlapped(ts) == {[t EXCEPT !.alone = FALSE] : t \in ts}

Event(kind, task, outcome, edge) ==
  [kind |-> kind, task |-> task, outcome |-> outcome, edge |-> edge,
   found |-> Snapshot]

\* ngOnInit, up to the await of the first prompt; the route may name any node.
PreviewInit ==
  /\ graph = PreviewGraph
  /\ threshold = TFJS_THRESHOLD
  /\ modelReady = FALSE
  /\ worlds = [r \in WorldRefs |-> EmptyWorld]
  /\ \E node \in 1..Len(PreviewGraph.nodes) :
       /\ inferenceState =
            [node |-> node, attemptNumber |-> 0, world |-> "session"]
       /\ initialInferenceState =
            [node |-> node, attemptNumber |-> 0, world |-> "initial"]
       /\ tasks = {[id |-> 0, handler |-> "ngOnInit", at |-> "advance",
                    edges |-> <<>>, state |-> Detached(NoState),
                    before |-> [node |-> node, attemptNumber |-> 0,
                                world |-> EmptyWorld],
                    alone |-> TRUE]}
  /\ finished = FALSE
  /\ loadingResults = FALSE
  /\ pc = "idle"
  /\ calls = 0
  /\ last = NoCall
  /\ mutationRun = NoRun
  /\ layoutRun = NoRun
  /\ serializationRun = NoRun
  /\ editor = NoRun
  /\ dialogPreview = NoRun
  /\ started = 0
  /\ event = NoEvent
  /\ inputDisabledWhileLoading \in BOOLEAN

\* What no handler step changes.
fixedInPreview ==
  <<graph, threshold, initialInferenceState, pc, calls, last, mutationRun,
    layoutRun, serializationRun, editor, dialogPreview,
    inputDisabledWhileLoading>>

\* The page lets the user submit an utterance: always, or, for a page that
\* disables its input during the scorer's work, while loadingResults is not set.
inputEnabled == inputDisabledWhileLoading => ~loadingResults

\* submitUtterance is invoked with an utterance in the input box, and runs up
\* to its await of addTranscriptItem(utterance, true).
SubmitStart ==
  /\ Cardinality(tasks) < MaxTasks
  /\ started < MaxHandlers
  /\ inputEnabled
  /\ tasks' = Overlapped(tasks)
                 \cup {Task(started + 1, "submitUtterance", "userTranscript")}
  /\ started' = started + 1
  /\ event' = Event("invoked", Task(started + 1, "submitUtterance",
                                    "userTranscript"), "running", NoEdge)
  /\ UNCHANGED <<modelReady, worlds, inferenceState, finished, loadingResults>>
  /\ UNCHANGED fixedInPreview

\* submitUtterance, lines 128-133: loadingResults is set and evaluate is called
\* on this.inferenceState; evaluate runs up to its first await (it throws at
\* once when the scorer is not ready, and has listed the out edges if not).
SubmitEvaluate ==
  \E t \in tasks :
    /\ t.at = "userTranscript"
    /\ loadingResults' = TRUE
    /\ IF ~modelReady
         THEN /\ tasks' = tasks \ {t}
              /\ event' = Event("ended", t, "notReady", NoEdge)
         ELSE /\ tasks' = (tasks \ {t}) \cup
                   {[t EXCEPT !.at = "evaluate", !.state = Current,
                      !.edges = getOutEdges(inferenceState.node, graph,
                                  Supplied(worlds[inferenceState.world]))]}
              /\ event' = Event("evaluateCalled", t, "running", NoEdge)
    /\ UNCHANGED <<modelReady, worlds, inferenceState, finished, started>>
    /\ UNCHANGED fixedInPreview

\* evaluate gets the scorer's answers and ends; submitUtterance, lines 134-147
\* (or 156), runs up to its next await.
SubmitResult ==
  \E t \in tasks :
    /\ t.at = "evaluate"
    /\ LET object == read(t.state)
           state == [node |-> object.node,
                     attemptNumber |-> object.attemptNumber,
                     world |-> Supplied(worlds[object.world])]
       IN  \E answer \in ScorerAnswers(graph,
                            semanticRulesFrom(graph, t.edges, 1), TRUE) :
             \E result \in {evaluateOver(state, t.edges, graph, TRUE, threshold,
                                         answer.scores, answer.failAt)} :
               /\ worlds' = [worlds EXCEPT
                               ![object.world] = result.state.world.map]
               /\ IF result.threw
                    THEN /\ tasks' = tasks \ {t}
                         /\ event' = Event("ended", t, "evaluateFailed", NoEdge)
                         /\ UNCHANGED <<inferenceState, loadingResults>>
                    ELSE /\ loadingResults' = FALSE
                         /\ inferenceState' =
                              [node |-> result.state.node,
                               attemptNumber |-> result.state.attemptNumber,
                               world |-> object.world]
                         /\ IF result.edge # NoEdge
                              THEN /\ tasks' = detach(tasks \ {t}) \cup
                                        {[t EXCEPT !.at = "advance",
                                                   !.state = Current,
                                                   !.edges = <<>>]}
                                   /\ event' = Event("evaluateReturned", t,
                                                     "running", result.edge)
                              ELSE /\ tasks' = detach(tasks \ {t})
                                   /\ event' = Event("ended", t, "noEdge",
                                                     NoEdge)
    /\ UNCHANGED <<modelReady, finished, started>>
    /\ UNCHANGED fixedInPreview

\* The out edges of autoAdvanceAsNeeded taken without the world, as
\* getRepeatedFailEdges takes them.
autoAdvanceEdges_WithoutWorld(state, heap) ==
  getOutEdges(state.node, graph, Undefined)

\* The out edges autoAdvanceAsNeeded chooses among.
autoAdvanceEdges(state, heap) ==
  getOutEdges(state.node, graph, Supplied(heap[state.world]))

\* One turn of the loop of autoAdvanceAsNeeded, from the end of an await to the
\* next: the node is an auto-advance node, and either has no edge to take (the
\* handler ends with the error) or is left along one picked at random.
AdvanceTurn ==
  \E t \in tasks :
    /\ t.at = "advance"
    /\ graph.nodes[inferenceState.node].autoAdvance
    /\ LET edges == autoAdvanceEdges(inferenceState, worlds)
       IN  IF Len(edges) = 0
             THEN /\ tasks' = tasks \ {t}
                  /\ event' = Event("ended", t, "deadEnd", NoEdge)
                  /\ UNCHANGED <<worlds, inferenceState>>
             ELSE \E i \in 1..Len(edges) :
                    /\ worlds' = [worlds EXCEPT
                                    ![inferenceState.world] =
                                       applyMutations(@, graph.edges[edges[i]])]
                    /\ inferenceState' =
                         [inferenceState EXCEPT
                            !.node = graph.edges[edges[i]].target]
                    /\ event' = Event("advanced", t, "running", edges[i])
                    /\ UNCHANGED tasks
    /\ UNCHANGED <<modelReady, finished, loadingResults, started>>
    /\ UNCHANGED fixedInPreview

\* autoAdvanceAsNeeded returns: the node is not an auto-advance node. The
\* handler runs to its end; submitUtterance tests isLeafNode(result.state).
AdvanceEnd ==
  \E t \in tasks :
    /\ t.at = "advance"
    /\ ~graph.nodes[inferenceState.node].autoAdvance
    /\ finished' = IF /\ t.handler = "submitUtterance"
                      /\ isLeafNode(read(t.state), worlds)
                     THEN TRUE ELSE finished
    /\ tasks' = tasks \ {t}
    /\ event' = Event("ended", t, "completed", NoEdge)
    /\ UNCHANGED <<modelReady, worlds, inferenceState, loadingResults, started>>
    /\ UNCHANGED fixedInPreview

\* restart is invoked, and runs up to its await of the first prompt.
RestartStart ==
  /\ Cardinality(tasks) < MaxTasks
  /\ started < MaxHandlers
  /\ finished' = FALSE
  /\ inferenceState' = initialInferenceState
  /\ tasks' = detach(Overlapped(tasks))
                 \cup {Task(started + 1, "restart", "advance")}
  /\ started' = started + 1
  /\ event' = Event("restarted", Task(started + 1, "restart", "advance"),
                    "running", NoEdge)
  /\ UNCHANGED <<modelReady, worlds, loadingResults>>
  /\ UNCHANGED fixedInPreview

PreviewNext ==
  \/ LoadModel
  \/ SubmitStart
  \/ SubmitEvaluate
  \/ SubmitResult
  \/ AdvanceTurn
  \/ AdvanceEnd
  \/ RestartStart

PreviewSpec == PreviewInit /\ [][PreviewNext]_vars

(***************************************************************************)
(* What the properties of the handlers speak of.                           *)
(***************************************************************************)
Ended(outcome) == event.kind = "ended" /\ event.outcome = outcome
IsAutoAdvance(node) == graph.nodes[node].autoAdvance
InEvaluate == {t \in tasks : t.at = "evaluate"}

\* The edges of the node listed under the world as documented.
Eligible(edge, map) ==
  \A c \in 1..Len(edge.conditions) : ConditionHolds(edge.conditions[c], map)

(***************************************************************************)
(* C14: a step that ends with the dead-end error.                          *)
(***************************************************************************)
\* C14: when a submitUtterance step, with no other handler running during it,
\* ends with the error of an auto-advance node without eligible edge, the
\* session's node, attemptNumber and world are those the step started from.
C14_DeadEndChangesNothing ==
  (/\ Ended("deadEnd")
   /\ event.task.handler = "submitUtterance"
   /\ event.task.alone) => Snapshot = event.task.before

(***************************************************************************)
(* C15: the world at session start.                                        *)
(***************************************************************************)
\* C15: when ngOnInit has set the session up, and when restart, invoked while
\* no handler is running and the session rests on a node that waits for an
\* utterance, has reset it, the session's world is empty.
C15_FreshWorldAtSessionStart ==
  /\ (started = 0 /\ event.kind = "none") =>
        worlds[inferenceState.world] = EmptyWorld
  /\ (/\ event.kind = "restarted"
      /\ event.task.alone
      /\ ~IsAutoAdvance(event.found.node)) =>
        worlds[inferenceState.world] = EmptyWorld

(***************************************************************************)
(* C16: one evaluate at a time.                                            *)
(***************************************************************************)
\* C16: at most one evaluate call of the session is in flight, even on a page
\* that disables its input while loadingResults is set.
C16_OneEvaluateInFlight ==
  inputDisabledWhileLoading => Cardinality(InEvaluate) <= 1

(***************************************************************************)
(* C17: no evaluate on an auto-advance node.                               *)
(***************************************************************************)
\* C17: evaluate is never called while the session's node is an auto-advance
\* node, even on a page that disables its input while loadingResults is set.
C17_NoEvaluateOnAutoAdvanceNode ==
  (inputDisabledWhileLoading /\ event.kind = "evaluateCalled")
    => ~IsAutoAdvance(event.found.node)

(***************************************************************************)
(* C19: leaf detection.                                                    *)
(***************************************************************************)
\* C19: when a handler has ended without error and no handler is running, and
\* the session's node has no out edge under the session's world, finished is
\* set.
C19_LeafEndsSession ==
  (/\ tasks = {}
   /\ Ended("completed") \/ Ended("noEdge")
   /\ isLeafNode(inferenceState, worlds)) => finished

(***************************************************************************)
(* C18: auto-advance continuation.                                         *)
(***************************************************************************)
\* C18: when a handler's auto-advance processing ends without error the
\* session's node is not an auto-advance node; and every turn of that
\* processing finds the session on an auto-advance node and leaves it along one
\* of that node's edges whose conditions hold in the session's world, to that
\* edge's target, with the edge's mutations applied to the world and
\* attemptNumber as it was.
C18_AutoAdvanceContinues ==
  /\ Ended("completed") => ~IsAutoAdvance(inferenceState.node)
  /\ event.kind = "advanced" =>
        LET edge == graph.edges[event.edge]
        IN  /\ IsAutoAdvance(event.found.node)
            /\ edge.source = event.found.node
            /\ Eligible(edge, event.found.world)
            /\ inferenceState.node = edge.target
            /\ inferenceState.attemptNumber = event.found.attemptNumber
            /\ worlds[inferenceState.world] =
                 MutatedWorld(event.found.world, edge.mutations)

\* A submitUtterance that ran alone took the session from node 1 through the
\* auto-advance nodes 2 and 3 to node 4, with the mutations of the three edges
\* applied, and its handler ended without error.
C18_Witness ==
  /\ Ended("completed")
  /\ event.task.handler = "submitUtterance"
  /\ event.task.alone
  /\ event.task.before.node = 1
  /\ event.task.before.world = EmptyWorld
  /\ inferenceState.node = 4
  /\ worlds[inferenceState.world] =
       [k \in Keys |-> IF k = "k1" THEN "b" ELSE "a"]

(***************************************************************************)
(* dagLayout of common/utils.ts, run statement by statement on every graph *)
(* of up to MaxLayoutNodes nodes and MaxLayoutEdges edges.                 *)
(***************************************************************************)
MaxLayoutNodes == 3
MaxLayoutEdges == 3

\* A Map<string, number> with its entries in insertion order.
mapHas(map, key) == \E i \in 1..Len(map) : map[i].key = key

mapGet(map, key) == map[CHOOSE i \in 1..Len(map) : map[i].key = key].value

\* mapSet moving the entry of a key the map has to the end of the map.
mapSet_MovesTheEntry(map, key, value) ==
  Append(SelectSeq(map, LAMBDA item : item.key # key),
         [key |-> key, value |-> value])

mapSet(map, key, value) ==
  IF mapHas(map, key)
    THEN [i \in 1..Len(map) |->
            IF map[i].key = key THEN [key |-> key, value |-> value]
                                ELSE map[i]]
    ELSE Append(map, [key |-> key, value |-> value])

NodeDepth(node, depth) == [node |-> node, depth |-> depth]

\* The edges there can be between the first n nodes, self-loops included.
LayoutEdges(n) == {Edge(s, t, <<>>, <<>>, <<>>) : s, t \in 1..n}

\* A node as the editor holds it, with its place on the canvas.
LayoutNode(id) == [id |-> id, autoAdvance |-> FALSE, fx |-> 0, fy |-> 0]

\* A graph of n nodes, with their ids unique.
LayoutGraph(start, n, edges) ==
  [start |-> start, nodes |-> [i \in 1..n |-> LayoutNode(i)], edges |-> edges]

\* What dagLayout returns: null, or the lists of node ids by depth.
Null == [isNull |-> TRUE, levels |-> <<>>]
Levels(depthToNode) == [isNull |-> FALSE, levels |-> depthToNode]

LayoutInit ==
  /\ SessionUnused
  /\ mutationRun = NoRun
  /\ layoutRun = NoRun
  /\ serializationRun = NoRun
  /\ editor = NoRun

\* The editor's graph, given node by node and edge by edge: node ids are
\* unique, start is the id of one of the nodes, every edge joins two of the
\* nodes; self-loops, parallel edges and nodes out of reach of start are all in.
LayoutGraphNodes ==
  /\ layoutRun.phase = "none"
  /\ \E n \in 1..MaxLayoutNodes :
       \E start \in 1..n :
          layoutRun' = [phase |-> "graph",
                        graph |-> LayoutGraph(start, n, <<>>),
                        inDegree |-> <<>>, finished |-> {}, depthMap |-> <<>>,
                        maxDepth |-> 0, proc |-> <<>>, dequeued |-> <<>>,
                        result |-> Null]
  /\ UNCHANGED <<sessionVars, mutationRun, serializationRun, editor>>

LayoutGraphEdge ==
  /\ layoutRun.phase = "graph"
  /\ Len(layoutRun.graph.edges) < MaxLayoutEdges
  /\ \E edge \in LayoutEdges(Len(layoutRun.graph.nodes)) :
       layoutRun' = [layoutRun EXCEPT !.graph.edges = Append(@, edge)]
  /\ UNCHANGED <<sessionVars, mutationRun, serializationRun, editor>>

\* applyTreeLayout calls dagLayout(this.graph).
LayoutCall ==
  /\ layoutRun.phase = "graph"
  /\ layoutRun' = [layoutRun EXCEPT !.phase = "called"]
  /\ UNCHANGED <<sessionVars, mutationRun, serializationRun, editor>>

\* "Set up indegrees": the loop over graph.edges, from edge i on.
RECURSIVE setUpInDegrees(_, _, _)
setUpInDegrees(inDegree, edges, i) ==
  IF i > Len(edges)
    THEN inDegree
    ELSE LET target == edges[i].target
         IN  setUpInDegrees(
               IF mapHas(inDegree, target)
                 THEN mapSet(inDegree, target, mapGet(inDegree, target) + 1)
                 ELSE mapSet(inDegree, target, 1),
               edges, i + 1)

\* dagLayout up to its while loop. startNode is undefined when no node has the
\* id graph.start, and reading startNode.id then throws.
LayoutSetUp ==
  /\ layoutRun.phase = "called"
  /\ LET g == layoutRun.graph
         found == SelectSeq(g.nodes, LAMBDA n : n.id = g.start)
     IN  layoutRun' =
           IF found = <<>>
             THEN [layoutRun EXCEPT !.phase = "threw"]
             ELSE [layoutRun EXCEPT
                     !.phase = "loop",
                     !.inDegree =
                        setUpInDegrees(mapSet(<<>>, found[1].id, 1),
                                       g.edges, 1),
                     !.proc = <<NodeDepth(found[1].id, 0)>>]
  /\ UNCHANGED <<sessionVars, mutationRun, serializationRun, editor>>

\* The body of the while loop with the depth of a node's first visit kept: a
\* breadth-first search then records the shortest path.
visit_DepthOfFirstVisit(run) ==
  LET g == run.graph
      cur == Head(run.proc)
      remainingInDegree == mapGet(run.inDegree, cur.node)
      outEdges == getOutEdges(cur.node, g, Undefined)
  IN  [run EXCEPT
         !.finished = IF remainingInDegree = 1 THEN @ \cup {cur.node} ELSE @,
         !.proc =
            IF remainingInDegree = 1
              THEN Tail(@) \o
                   [i \in 1..Len(outEdges) |->
                      NodeDepth(g.edges[outEdges[i]].target, cur.depth + 1)]
              ELSE Tail(@),
         !.inDegree =
            IF remainingInDegree = 1
              THEN @
              ELSE mapSet(@, cur.node, remainingInDegree - 1),
         !.depthMap =
            IF mapHas(@, cur.node) THEN @ ELSE mapSet(@, cur.node, cur.depth),
         !.maxDepth = IF cur.depth > @ THEN cur.depth ELSE @,
         !.dequeued = Append(@, cur.node)]

\* The body of the while loop placing the node it visits: the node's fy is set
\* from its depth, as applyTreeLayout does from the returned lists.
visit_PlacingTheNode(run) ==
  LET g == run.graph
      cur == Head(run.proc)
      remainingInDegree == mapGet(run.inDegree, cur.node)
      outEdges == getOutEdges(cur.node, g, Undefined)
  IN  [run EXCEPT
         !.graph.nodes =
            [i \in 1..Len(@) |->
               IF @[i].id = cur.node THEN [@[i] EXCEPT !.fy = cur.depth + 1]
                                     ELSE @[i]],
         !.finished = IF remainingInDegree = 1 THEN @ \cup {cur.node} ELSE @,
         !.proc =
            IF remainingInDegree = 1
              THEN Tail(@) \o
                   [i \in 1..Len(outEdges) |->
                      NodeDepth(g.edges[outEdges[i]].target, cur.depth + 1)]
              ELSE Tail(@),
         !.inDegree =
            IF remainingInDegree = 1
              THEN @
              ELSE mapSet(@, cur.node, remainingInDegree - 1),
         !.depthMap = mapSet(@, cur.node, cur.depth),
         !.maxDepth = IF cur.depth > @ THEN cur.depth ELSE @,
         !.dequeued = Append(@, cur.node)]

\* The body of the while loop: proc.shift() and what is done with the entry.
visit(run) ==
  LET g == run.graph
      cur == Head(run.proc)
      remainingInDegree == mapGet(run.inDegree, cur.node)
      outEdges == getOutEdges(cur.node, g, Undefined)
  IN  [run EXCEPT
         !.finished = IF remainingInDegree = 1 THEN @ \cup {cur.node} ELSE @,
         !.proc =
            IF remainingInDegree = 1
              THEN Tail(@) \o
                   [i \in 1..Len(outEdges) |->
                      NodeDepth(g.edges[outEdges[i]].target, cur.depth + 1)]
              ELSE Tail(@),
         !.inDegree =
            IF remainingInDegree = 1
              THEN @
              ELSE mapSet(@, cur.node, remainingInDegree - 1),
         !.depthMap = mapSet(@, cur.node, cur.depth),
         !.maxDepth = IF cur.depth > @ THEN cur.depth ELSE @,
         !.dequeued = Append(@, cur.node)]

\* One turn of the while loop.
LayoutVisit ==
  /\ layoutRun.phase = "loop"
  /\ Len(layoutRun.proc) > 0
  /\ layoutRun' = visit(layoutRun)
  /\ UNCHANGED <<sessionVars, mutationRun, serializationRun, editor>>

\* depthToNode with one list more than there are depths.
depthToNode_OneListMore(depthMap, maxDepth) ==
  [d \in 1..(maxDepth + 2) |->
     LET atDepth == SelectSeq(depthMap, LAMBDA item : item.value = d - 1)
     IN  [i \in 1..Len(atDepth) |-> atDepth[i].key]]

\* "Invert node->depth map": one list per depth, each in the map's order.
depthToNode(depthMap, maxDepth) ==
  [d \in 1..(maxDepth + 1) |->
     LET atDepth == SelectSeq(depthMap, LAMBDA item : item.value = d - 1)
     IN  [i \in 1..Len(atDepth) |-> atDepth[i].key]]

\* layoutResult with the nodes that were visited counted, finished or not.
layoutResult_CountVisited(run) ==
  IF Len(run.depthMap) # Len(run.graph.nodes)
    THEN Null
    ELSE Levels(depthToNode(run.depthMap, run.maxDepth))

\* dagLayout after its while loop.
layoutResult(run) ==
  IF Cardinality(run.finished) # Len(run.graph.nodes)
    THEN Null
    ELSE Levels(depthToNode(run.depthMap, run.maxDepth))

\* The queue is empty: dagLayout returns.
LayoutReturn ==
  /\ layoutRun.phase = "loop"
  /\ Len(layoutRun.proc) = 0
  /\ layoutRun' = [layoutRun EXCEPT !.phase = "returned",
                                    !.result = layoutResult(layoutRun)]
  /\ UNCHANGED <<sessionVars, mutationRun, serializationRun, editor>>

\* The constants of applyTreeLayout, as graph_editor.ts computes them.
NODE_WIDTH == 162
AUTOLAYOUT_X_SPACING == 462
AUTOLAYOUT_Y_SPACING == 260

\* The last place of the id in the lists: the row (from 1) and the place in
\* the row (from 1) at which the loops of applyTreeLayout set its node last.
lastPlace(layoutData, nodeID) ==
  LET places == {p \in UNION {{<<i, k>> : k \in 1..Len(layoutData[i])} :
                                i \in 1..Len(layoutData)} :
                   layoutData[p[1]][p[2]] = nodeID}
  IN  CHOOSE p \in places :
        \A q \in places : q[1] < p[1] \/ (q[1] = p[1] /\ q[2] <= p[2])

\* applyTreeLayout with y left at 0 for every row.
applyTreeLayout_OneRow(g, layoutData) ==
  IF layoutData.isNull
    THEN g
    ELSE [g EXCEPT !.nodes =
            [n \in 1..Len(@) |->
               IF \E i \in 1..Len(layoutData.levels) :
                     \E k \in 1..Len(layoutData.levels[i]) :
                        layoutData.levels[i][k] = @[n].id
                 THEN LET p == lastPlace(layoutData.levels, @[n].id)
                          numNodesInRow == Len(layoutData.levels[p[1]])
                      IN  [@[n] EXCEPT
                             !.fx = (0 - (NODE_WIDTH + (numNodesInRow - 1)
                                            * AUTOLAYOUT_X_SPACING) \div 2)
                                    + (p[2] - 1) * AUTOLAYOUT_X_SPACING,
                             !.fy = 0]
                 ELSE @[n]]]

\* applyTreeLayout, given what dagLayout returned: nothing but the snackbar
\* for null, else fx and fy of the node of every id in the lists, row by row.
applyTreeLayout(g, layoutData) ==
  IF layoutData.isNull
    THEN g
    ELSE [g EXCEPT !.nodes =
            [n \in 1..Len(@) |->
               IF \E i \in 1..Len(layoutData.levels) :
                     \E k \in 1..Len(layoutData.levels[i]) :
                        layoutData.levels[i][k] = @[n].id
                 THEN LET p == lastPlace(layoutData.levels, @[n].id)
                          numNodesInRow == Len(layoutData.levels[p[1]])
                      IN  [@[n] EXCEPT
                             !.fx = (0 - (NODE_WIDTH + (numNodesInRow - 1)
                                            * AUTOLAYOUT_X_SPACING) \div 2)
                                    + (p[2] - 1) * AUTOLAYOUT_X_SPACING,
                             !.fy = (p[1] - 1) * AUTOLAYOUT_Y_SPACING]
                 ELSE @[n]]]

\* applyTreeLayout from the return of dagLayout to its own.
LayoutApply ==
  /\ layoutRun.phase = "returned"
  /\ layoutRun' = [layoutRun EXCEPT
                     !.phase = "applied",
                     !.graph = applyTreeLayout(@, layoutRun.result)]
  /\ UNCHANGED <<sessionVars, mutationRun, serializationRun, editor>>

LayoutNext ==
  \/ LayoutGraphNodes
  \/ LayoutGraphEdge
  \/ LayoutCall
  \/ LayoutSetUp
  \/ LayoutVisit
  \/ LayoutReturn
  \/ LayoutApply

LayoutSpec == LayoutInit /\ [][LayoutNext]_vars

\* The nodes that can be reached from the nodes of S along at most k edges.
RECURSIVE ReachableWithin(_, _, _)
ReachableWithin(g, S, k) ==
  IF k = 0
    THEN S
    ELSE ReachableWithin(
           g,
           S \cup {g.edges[i].target :
                     i \in {j \in 1..Len(g.edges) : g.edges[j].source \in S}},
           k - 1)

\* The graph has a directed cycle: some edge's source can be reached from its
\* target.
HasCycle(g) ==
  \E i \in 1..Len(g.edges) :
     g.edges[i].source \in
       ReachableWithin(g, {g.edges[i].target}, Len(g.nodes))

\* The sum of the values of a Map<string, number>.
RECURSIVE mapSum(_)
mapSum(map) == IF map = <<>> THEN 0 ELSE Head(map).value + mapSum(Tail(map))

\* The in-degrees still to be counted down: the units left in inDegree, less
\* the one unit every finished node keeps.
Pending(run) == mapSum(run.inDegree) - Cardinality(run.finished)

\* dagLayout has been called on a graph that has a directed cycle.
CalledOnCycle ==
  /\ layoutRun.phase \in {"called", "loop", "returned", "threw"}
  /\ HasCycle(layoutRun.graph)

(***************************************************************************)
(* C20: cycle detection.                                                   *)
(***************************************************************************)
\* C20: called on a graph that has a directed cycle (through start, within
\* reach of start, out of its reach, or a self-loop), dagLayout does not throw,
\* what it returns is null, and its while loop ends: every turn of the loop
\* lowers Pending, a natural number, so that the loop is left after at most
\* 1 + graph.edges.length turns.
C20_CycleReturnsNull ==
  /\ [](CalledOnCycle =>
          /\ layoutRun.phase # "threw"
          /\ layoutRun.phase = "returned" => layoutRun.result = Null
          /\ layoutRun.phase = "loop" => Pending(layoutRun) \in Nat)
  /\ [][(CalledOnCycle /\ layoutRun.phase = "loop"
           /\ layoutRun'.phase = "loop")
          => Pending(layoutRun') < Pending(layoutRun)]_vars

\* dagLayout has returned null for the graph 1 -> 2 -> 3 -> 2 with start 1,
\* having finished node 1 alone.
C20_Witness ==
  /\ layoutRun.phase = "returned"
  /\ layoutRun.graph.start = 1
  /\ Len(layoutRun.graph.nodes) = 3
  /\ layoutRun.graph.edges =
       <<Edge(1, 2, <<>>, <<>>, <<>>), Edge(2, 3, <<>>, <<>>, <<>>),
         Edge(3, 2, <<>>, <<>>, <<>>)>>
  /\ HasCycle(layoutRun.graph)
  /\ layoutRun.finished = {1}
  /\ layoutRun.result = Null

\* The nodes within reach of start, start among them.
ReachableFromStart(g) == ReachableWithin(g, {g.start}, Len(g.nodes))

\* The graph has a directed cycle within reach of start.
HasReachableCycle(g) ==
  \E i \in 1..Len(g.edges) :
     /\ g.edges[i].source \in ReachableFromStart(g)
     /\ g.edges[i].source \in
          ReachableWithin(g, {g.edges[i].target}, Len(g.nodes))

Returned == layoutRun.phase = "returned"

(***************************************************************************)
(* C21: null is returned for cyclic graphs only.                           *)
(***************************************************************************)
\* C21: when dagLayout returns null, the graph has a directed cycle within
\* reach of start.
C21_NullOnlyForReachableCycle ==
  (Returned /\ layoutRun.result = Null) => HasReachableCycle(layoutRun.graph)

\* The nodes a walk of exactly k edges from start can end on.
RECURSIVE WalkEnds(_, _)
WalkEnds(g, k) ==
  IF k = 0
    THEN {g.start}
    ELSE {g.edges[i].target :
            i \in {j \in 1..Len(g.edges) :
                     g.edges[j].source \in WalkEnds(g, k - 1)}}

\* The number of edges of the longest directed path from start to the node, in
\* a graph whose part within reach of start has no cycle; -1 without a path.
LongestPath(g, id) ==
  LET lengths == {k \in 0..Len(g.nodes) : id \in WalkEnds(g, k)}
  IN  IF lengths = {} THEN -1
      ELSE CHOOSE k \in lengths : \A l \in lengths : l <= k

\* The node id is in the list at index i (from 0) of the layout.
InLevel(levels, id, i) ==
  /\ i + 1 <= Len(levels)
  /\ \E j \in 1..Len(levels[i + 1]) : levels[i + 1][j] = id

(***************************************************************************)
(* C22: longest-path levelling.                                            *)
(***************************************************************************)
\* C22: when dagLayout returns a layout, a node id is in the list at index i
\* exactly when the longest directed path from start to the node has i edges.
C22_LongestPathLevels ==
  (Returned /\ ~layoutRun.result.isNull) =>
     \A n \in 1..Len(layoutRun.graph.nodes), i \in 0..Len(layoutRun.graph.nodes) :
        InLevel(layoutRun.result.levels, layoutRun.graph.nodes[n].id, i)
          <=> LongestPath(layoutRun.graph, layoutRun.graph.nodes[n].id) = i

\* dagLayout has returned [[1], [2], [3]] for the graph 1 -> 2, 1 -> 3, 2 -> 3
\* with start 1: node 3, one edge from start, is two edges down the longest
\* path.
C22_Witness ==
  /\ Returned
  /\ layoutRun.graph.start = 1
  /\ layoutRun.graph.edges =
       <<Edge(1, 2, <<>>, <<>>, <<>>), Edge(1, 3, <<>>, <<>>, <<>>),
         Edge(2, 3, <<>>, <<>>, <<>>)>>
  /\ layoutRun.result = Levels(<<<<1>>, <<2>>, <<3>>>>)

(***************************************************************************)
(* C23: dagLayout is pure.                                                 *)
(***************************************************************************)
\* C23: no step of dagLayout, on a graph with a cycle or without one, changes
\* the graph: its start id, its list of nodes and its list of edges, with the
\* fields of every node (fx and fy among them) and of every edge, stay as they
\* were when dagLayout was called.
C23_GraphUnchanged ==
  [][layoutRun.phase \in {"called", "loop"} =>
       layoutRun'.graph = layoutRun.graph]_vars

\* dagLayout has returned lists for a graph of three nodes, all of them
\* visited, and every node is where it was.
C23_Witness ==
  /\ Returned
  /\ ~layoutRun.result.isNull
  /\ Len(layoutRun.depthMap) = 3
  /\ layoutRun.graph = LayoutGraph(1, 3, layoutRun.graph.edges)

(***************************************************************************)
(* services/persistence/graph_serialization.ts: a serializable graph taken *)
(* through serializableGraphToGraph and then graphToSerializableGraph.     *)
(***************************************************************************)
MaxSerializedNodes == 2
MaxSerializedEdges == 1

\* An optional property: missing (undefined), or present with a value.
Missing == <<>>
Present(value) == <<value>>

\* falsy for a string|undefined: undefined or the empty string.
EmptyString == ""
truthyString(optional) == optional # Missing /\ optional[1] # EmptyString

SerializableNode(id, autoAdvance, anchor) ==
  [id |-> id, title |-> "title", prompt |-> "prompt",
   retryPrompt |-> "retryPrompt", autoAdvance |-> autoAdvance,
   anchor |-> anchor]

SerializableEdge(sourceIndex, targetIndex, rules, mutations, conditions) ==
  [sourceIndex |-> sourceIndex, targetIndex |-> targetIndex, rules |-> rules,
   mutations |-> mutations, conditions |-> conditions]

\* The values the optional properties of the wire format take.
ContentIds == {Missing, Present(EmptyString), Present("content")}
AutoAdvances == {Missing, Present(FALSE), Present(TRUE)}
Anchors == {Missing, Present([x |-> 1, y |-> 2])}

\* What an edge carries: nothing, or a rule, a mutation and a condition.
EdgeContents ==
  {[rules |-> <<>>, mutations |-> <<>>, conditions |-> <<>>],
   [rules |-> <<SemanticMatchRule(<<MatchCandidate(FALSE)>>),
                RepeatedFailRule(1)>>,
    mutations |-> <<Add("k1", "a"), Remove("k2", "b")>>,
    conditions |-> <<Require("k1", "a"), Forbid("k2", "b")>>]}

SerializationInit ==
  /\ SessionUnused
  /\ mutationRun = NoRun
  /\ layoutRun = NoRun
  /\ editor = NoRun
  /\ serializationRun = NoRun

\* A serializable graph as PersistenceService.load gives it, node by node and
\* edge by edge: every property has the type the interface declares, node ids
\* are unique. An edge's index is one of 0 .. nodes.length, the last of which
\* is the index of no node.
LoadGraph ==
  /\ serializationRun.phase = "none"
  /\ \E contentId \in ContentIds :
       serializationRun' =
         [phase |-> "loading",
          given |-> [id |-> "id", name |-> "name", start |-> 1,
                     contentId |-> contentId, nodes |-> <<>>, edges |-> <<>>],
          graph |-> NoRun, result |-> NoRun]
  /\ UNCHANGED <<sessionVars, mutationRun, layoutRun, editor>>

LoadNode ==
  /\ serializationRun.phase = "loading"
  /\ Len(serializationRun.given.nodes) < MaxSerializedNodes
  /\ Len(serializationRun.given.edges) = 0
  /\ \E autoAdvance \in AutoAdvances, anchor \in Anchors :
       serializationRun' =
         [serializationRun EXCEPT
            !.given.nodes =
               Append(@, SerializableNode(Len(@) + 1, autoAdvance, anchor))]
  /\ UNCHANGED <<sessionVars, mutationRun, layoutRun, editor>>

LoadEdge ==
  /\ serializationRun.phase = "loading"
  /\ Len(serializationRun.given.edges) < MaxSerializedEdges
  /\ \E sourceIndex, targetIndex \in 0..Len(serializationRun.given.nodes) :
       \E c \in EdgeContents :
          serializationRun' =
            [serializationRun EXCEPT
               !.given.edges =
                  Append(@, SerializableEdge(sourceIndex, targetIndex, c.rules,
                                             c.mutations, c.conditions))]
  /\ UNCHANGED <<sessionVars, mutationRun, layoutRun, editor>>

\* array[index] of JavaScript, the index counted from 0: undefined when the
\* array has no such entry.
at(array, index) ==
  IF index + 1 \in 1..Len(array) THEN Present(array[index + 1]) ELSE Missing

\* The Node serializableGraphToGraph makes of a serializable node.
toNode(e) ==
  [id |-> e.id, title |-> e.title, prompt |-> e.prompt,
   retryPrompt |-> e.retryPrompt, autoAdvance |-> e.autoAdvance,
   fx |-> IF e.anchor # Missing THEN Present(e.anchor[1].x) ELSE Missing,
   fy |-> IF e.anchor # Missing THEN Present(e.anchor[1].y) ELSE Missing]

\* serializableGraphToGraph. An edge's source and target are the nodes of the
\* new graph at the two indices, or undefined where there is no such node. The
\* rules, mutations and conditions are arrays, as the interface declares them,
\* and are taken as they are.
serializableGraphToGraph(serializableGraph) ==
  LET nodes == [i \in 1..Len(serializableGraph.nodes) |->
                  toNode(serializableGraph.nodes[i])]
  IN  [id |-> serializableGraph.id,
       name |-> serializableGraph.name,
       start |-> serializableGraph.start,
       contentId |-> IF truthyString(serializableGraph.contentId)
                       THEN serializableGraph.contentId ELSE Missing,
       nodes |-> nodes,
       edges |-> [i \in 1..Len(serializableGraph.edges) |->
                    LET e == serializableGraph.edges[i]
                    IN  [source |-> at(nodes, e.sourceIndex),
                         target |-> at(nodes, e.targetIndex),
                         rules |-> e.rules,
                         mutations |-> e.mutations,
                         conditions |-> e.conditions]]]

\* Number(value) of a number.
Number(value) == value

purifyNode(node) ==
  [id |-> node.id, title |-> node.title, prompt |-> node.prompt,
   retryPrompt |-> node.retryPrompt,
   autoAdvance |-> IF node.autoAdvance # Missing THEN node.autoAdvance
                                                 ELSE Missing,
   anchor |-> IF node.fx # Missing /\ node.fy # Missing
                THEN Present([x |-> Number(node.fx[1]),
                              y |-> Number(node.fy[1])])
                ELSE Missing]

\* findNodeIndex, the index counted from 0: -1 stands for its throwing, which
\* it does when no node has the target's id and when the target, being
\* undefined, has no id to read.
NotFound == -1
findNodeIndex(nodes, target) ==
  IF target = Missing
    THEN NotFound
    ELSE LET found == {i \in 1..Len(nodes) : nodes[i].id = target[1].id}
         IN  IF found = {} THEN NotFound
             ELSE (CHOOSE i \in found : \A j \in found : i <= j) - 1

\* graphToSerializableGraph: what it returns, or that it threw.
graphToSerializableGraph(g) ==
  LET edges == [i \in 1..Len(g.edges) |->
                  SerializableEdge(findNodeIndex(g.nodes, g.edges[i].source),
                                   findNodeIndex(g.nodes, g.edges[i].target),
                                   g.edges[i].rules, g.edges[i].mutations,
                                   g.edges[i].conditions)]
  IN  IF \E i \in 1..Len(edges) :
           NotFound \in {edges[i].sourceIndex, edges[i].targetIndex}
        THEN [threw |-> TRUE]
        ELSE [threw |-> FALSE,
              value |-> [id |-> g.id, name |-> g.name, start |-> g.start,
                         contentId |-> IF truthyString(g.contentId)
                                         THEN g.contentId ELSE Missing,
                         nodes |-> [i \in 1..Len(g.nodes) |->
                                      purifyNode(g.nodes[i])],
                         edges |-> edges]]

\* The editor and the preview turn the loaded graph into a Graph.
Deserialize ==
  /\ serializationRun.phase = "loading"
  /\ serializationRun' =
       [serializationRun EXCEPT
          !.phase = "graph",
          !.graph = serializableGraphToGraph(serializationRun.given)]
  /\ UNCHANGED <<sessionVars, mutationRun, layoutRun, editor>>

\* saveGraph turns the Graph into a serializable graph again.
Serialize ==
  /\ serializationRun.phase = "graph"
  /\ \E out \in {graphToSerializableGraph(serializationRun.graph)} :
       serializationRun' =
         IF out.threw
           THEN [serializationRun EXCEPT !.phase = "threw"]
           ELSE [serializationRun EXCEPT !.phase = "returned",
                                         !.result = out.value]
  /\ UNCHANGED <<sessionVars, mutationRun, layoutRun, editor>>

SerializationNext ==
  \/ LoadGraph
  \/ LoadNode
  \/ LoadEdge
  \/ Deserialize
  \/ Serialize

SerializationSpec == SerializationInit /\ [][SerializationNext]_vars

\* Every index of every edge of the serializable graph is the index of a node.
ValidIndices(g) ==
  \A i \in 1..Len(g.edges) :
     /\ g.edges[i].sourceIndex \in 0..(Len(g.nodes) - 1)
     /\ g.edges[i].targetIndex \in 0..(Len(g.nodes) - 1)

(***************************************************************************)
(* C24: the serialization round trip.                                      *)
(***************************************************************************)
\* C24: a serializable graph whose edge indices are all indices of nodes,
\* turned into a Graph and back, comes back equal to what it was: the same
\* properties, nodes and edges in the same order, every edge with the same
\* indices, rules, mutations and conditions.
C24_RoundTrip ==
  (serializationRun.phase \in {"returned", "threw"}
     /\ ValidIndices(serializationRun.given))
    => /\ serializationRun.phase = "returned"
       /\ serializationRun.result = serializationRun.given

\* The edge's source and target are nodes of the graph.
Joined(g, edge) ==
  /\ edge.source # Missing
  /\ edge.target # Missing
  /\ \E i \in 1..Len(g.nodes) : g.nodes[i] = edge.source[1]
  /\ \E i \in 1..Len(g.nodes) : g.nodes[i] = edge.target[1]

(***************************************************************************)
(* C25: deserialization rejects dangling edges.                            *)
(***************************************************************************)
\* C25: serializableGraphToGraph returns a graph only for a serializable graph
\* whose edge indices are all indices of nodes (for any other it fails), and
\* every edge of the graph it returns has a node of the graph as its source
\* and as its target.
C25_DanglingEdgesRejected ==
  serializationRun.phase = "graph" =>
     /\ ValidIndices(serializationRun.given)
     /\ \A i \in 1..Len(serializationRun.graph.edges) :
           Joined(serializationRun.graph, serializationRun.graph.edges[i])

(***************************************************************************)
(* The graph editor: GraphEditor's mouse handlers and the inspectors'      *)
(* delete buttons, working on the one graph GraphService holds.  A drag is *)
(* one operation, the mousedown on the source's 'new-node-circle' and the  *)
(* mouseup that ends it; a node is the object its uuid names, so that an   *)
(* edge's source and target are written as ids.                            *)
(***************************************************************************)
MaxEditorNodes == 3
MaxEditorEdges == 3

EditorNode(id) == [id |-> id]
EditorEdge(source, target) == [source |-> source, target |-> target]

\* createWelcomeGraph: one node, which is the start, and no edge.
createWelcomeGraph ==
  [start |-> 1, nodes |-> <<EditorNode(1)>>, edges |-> <<>>]

NoEditorEdge == EditorEdge(0, 0)
EditorOp(kind, node, edge, before) ==
  [kind |-> kind, node |-> node, edge |-> edge, before |-> before]

EditorInit ==
  /\ SessionUnused
  /\ mutationRun = NoRun
  /\ layoutRun = NoRun
  /\ serializationRun = NoRun
  /\ editor = [phase |-> "editing",
               graph |-> createWelcomeGraph,
               uuids |-> 1,
               op |-> EditorOp("none", 0, NoEditorEdge, createWelcomeGraph)]

\* deleteNode that leaves the edges alone.
deleteNode_NodeOnly(g, node) ==
  [g EXCEPT !.nodes = SelectSeq(g.nodes, LAMBDA n : n.id # node.id)]

\* GraphService.deleteNode: the nodes but the one of this id, the edges but
\* those whose source or target has this id.
deleteNode(g, node) ==
  [g EXCEPT !.nodes = SelectSeq(g.nodes, LAMBDA n : n.id # node.id),
            !.edges = SelectSeq(g.edges, LAMBDA l : /\ l.source # node.id
                                                    /\ l.target # node.id)]

\* GraphService.deleteEdge: the edges but those of this source and target.
deleteEdge(g, edge) ==
  [g EXCEPT !.edges = SelectSeq(g.edges, LAMBDA l : ~ (/\ l.source = edge.source
                                                       /\ l.target = edge.target))]

\* The loop under "Disallow duplicate edges and bidirectional edges": both
\* halves of its test compare the new edge's source with the edge's source and
\* its target with the edge's target.
isDuplicate(g, newEdge) ==
  \E i \in 1..Len(g.edges) :
     \/ (g.edges[i].source = newEdge.source /\ g.edges[i].target = newEdge.target)
     \/ (g.edges[i].source = newEdge.source /\ g.edges[i].target = newEdge.target)

\* createEdge without the test under "Prevent self loops".
createEdge_NoSelfLoopTest(g, mousedownNode, d) ==
  IF isDuplicate(g, EditorEdge(mousedownNode, d)) THEN g
  ELSE [g EXCEPT !.edges = Append(g.edges, EditorEdge(mousedownNode, d))]

\* The node's mouseup handler with a mousedownNode: nothing for the node the
\* drag began on, nothing for an edge the graph has, else the edge is pushed.
createEdge(g, mousedownNode, d) ==
  IF mousedownNode = d THEN g
  ELSE IF isDuplicate(g, EditorEdge(mousedownNode, d)) THEN g
  ELSE [g EXCEPT !.edges = Append(g.edges, EditorEdge(mousedownNode, d))]

\* The canvas's mouseup handler with a mousedownNode: a node of a new uuid and
\* the edge from the mousedownNode to it are pushed.
createNode(g, mousedownNode, uuid) ==
  [g EXCEPT !.nodes = Append(g.nodes, EditorNode(uuid)),
            !.edges = Append(g.edges, EditorEdge(mousedownNode, uuid))]

NodeIds(g) == {g.nodes[i].id : i \in 1..Len(g.nodes)}

\* A drag from a node's circle to another node (or back to the same one).
EditorCreateEdge ==
  /\ editor.phase = "editing"
  /\ \E mousedownNode \in NodeIds(editor.graph), d \in NodeIds(editor.graph) :
       LET after == createEdge(editor.graph, mousedownNode, d) IN
       /\ Len(after.edges) <= MaxEditorEdges
       /\ editor' = [editor EXCEPT
            !.graph = after,
            !.op = EditorOp(IF after = editor.graph THEN "refused" ELSE "createEdge",
                            0, EditorEdge(mousedownNode, d), editor.graph)]
  /\ UNCHANGED <<sessionVars, mutationRun, layoutRun, serializationRun>>

\* A drag from a node's circle to the empty canvas.
EditorCreateNode ==
  /\ editor.phase = "editing"
  /\ editor.uuids < MaxEditorNodes
  /\ Len(editor.graph.edges) < MaxEditorEdges
  /\ \E mousedownNode \in NodeIds(editor.graph) :
       LET uuid == editor.uuids + 1 IN
       editor' = [editor EXCEPT
          !.graph = createNode(editor.graph, mousedownNode, uuid),
          !.uuids = uuid,
          !.op = EditorOp("createNode", uuid, EditorEdge(mousedownNode, uuid),
                          editor.graph)]
  /\ UNCHANGED <<sessionVars, mutationRun, layoutRun, serializationRun>>

\* NodeInspector.onDelete for the node it shows, any node of the graph.
EditorDeleteNode ==
  /\ editor.phase = "editing"
  /\ \E i \in 1..Len(editor.graph.nodes) :
       editor' = [editor EXCEPT
          !.graph = deleteNode(editor.graph, editor.graph.nodes[i]),
          !.op = EditorOp("deleteNode", editor.graph.nodes[i].id, NoEditorEdge,
                          editor.graph)]
  /\ UNCHANGED <<sessionVars, mutationRun, layoutRun, serializationRun>>

\* EdgeEditor.onDelete for the edge it shows, any edge of the graph.
EditorDeleteEdge ==
  /\ editor.phase = "editing"
  /\ \E i \in 1..Len(editor.graph.edges) :
       editor' = [editor EXCEPT
          !.graph = deleteEdge(editor.graph, editor.graph.edges[i]),
          !.op = EditorOp("deleteEdge", 0, editor.graph.edges[i], editor.graph)]
  /\ UNCHANGED <<sessionVars, mutationRun, layoutRun, serializationRun>>

EditorNext ==
  \/ EditorCreateEdge
  \/ EditorCreateNode
  \/ EditorDeleteNode
  \/ EditorDeleteEdge

EditorSpec == EditorInit /\ [][EditorNext]_vars

Editing == editor.phase = "editing"

\* Every edge of the graph has a node of the graph as its source and as its
\* target.
NoDanglingEdges(g) ==
  \A i \in 1..Len(g.edges) :
     /\ g.edges[i].source \in NodeIds(g)
     /\ g.edges[i].target \in NodeIds(g)

\* The edge has the node as its source or as its target.
Incident(edge, id) == edge.source = id \/ edge.target = id

C27_StartIsANode ==
  Editing => editor.graph.start \in NodeIds(editor.graph)

(***************************************************************************)
(* C28: edges the editor creates.                                          *)
(***************************************************************************)
\* C28: after any sequence of the editor's operations from a graph without
\* them, the graph has no edge from a node to itself and no two edges of the
\* same source and target; a drag that would add either adds nothing.
C28_NoSelfLoopNoDuplicate ==
  Editing =>
    /\ \A i \in 1..Len(editor.graph.edges) :
          editor.graph.edges[i].source # editor.graph.edges[i].target
    /\ \A i, j \in 1..Len(editor.graph.edges) :
          (/\ editor.graph.edges[i].source = editor.graph.edges[j].source
           /\ editor.graph.edges[i].target = editor.graph.edges[j].target) => i = j
    /\ editor.op.kind = "refused" => editor.graph = editor.op.before

\* A drag from a node to another has been refused: the graph has that edge.
C28_Witness ==
  /\ Editing
  /\ editor.op.kind = "refused"
  /\ editor.op.edge.source # editor.op.edge.target
  /\ \E i \in 1..Len(editor.graph.edges) : editor.graph.edges[i] = editor.op.edge

(***************************************************************************)
(* The calls of semanticMatchService.semanticSimilarity one evaluate       *)
(* makes. A candidate's text is written as its place in the rule's list.   *)
(***************************************************************************)
\* candidates = rule.matchCandidates.map(x => x.text)
candidateTexts(rule) == [i \in 1..Len(rule.matchCandidates) |-> i]

\* semanticSimilarityCall for a rule without candidates too.
semanticSimilarityCall_WhateverTheRule(pair, rule) ==
  <<[edge |-> pair[1], rule |-> pair[2], candidates |-> candidateTexts(rule)]>>

\* The call checkSemanticMatchRule makes for a rule: none for a rule without
\* candidates, else one with the texts of its candidates.
semanticSimilarityCall(pair, rule) ==
  IF Len(rule.matchCandidates) = 0
    THEN <<>>
    ELSE <<[edge |-> pair[1], rule |-> pair[2],
            candidates |-> candidateTexts(rule)]>>

\* The calls of the first loop of evaluate from the j-th semantic match rule
\* on: the loop ends with the call that is rejected (the failAt-th rule's) and
\* with the rule whose checkSemanticMatchRule throws.
RECURSIVE semanticSimilarityCallsFrom(_, _, _, _, _)
semanticSimilarityCallsFrom(g, pairs, scores, failAt, j) ==
  IF j > Len(pairs)
    THEN <<>>
    ELSE
      LET rule == g.edges[pairs[j][1]].rules[pairs[j][2]]
          call == semanticSimilarityCall(pairs[j], rule)
      IN  IF j = failAt
            THEN call
            ELSE IF checkSemanticMatchRule(rule, scores[j]).threw
              THEN call
              ELSE call \o semanticSimilarityCallsFrom(g, pairs, scores,
                                                       failAt, j + 1)

\* The calls of one evaluate: none when the scorer is not ready.
semanticSimilarityCalls(g, edges, ready, scores, failAt) ==
  IF ~ready
    THEN <<>>
    ELSE semanticSimilarityCallsFrom(g, semanticRulesFrom(g, edges, 1),
                                     scores, failAt, 1)

\* The calls of the last evaluate call.
ScorerCalls ==
  semanticSimilarityCalls(graph, last.outEdges, modelReady, last.scores,
                          last.failAt)

\* The semantic match rules of the eligible out edges of the last evaluate
\* call that have a candidate, edge by edge and rule by rule.
RulesWithCandidates ==
  SelectSeq(semanticRulesFrom(graph, last.outEdges, 1),
            LAMBDA p : Len(graph.edges[p[1]].rules[p[2]].matchCandidates) >= 1)

(***************************************************************************)
(* C29: the scorer is never called with an empty candidate list.           *)
(***************************************************************************)
\* C29: no call of the scorer has an empty candidate list; an evaluate call
\* that returns has made exactly one scorer call for each semantic match rule
\* with a candidate on the eligible out edges, edge by edge and rule by rule,
\* with that rule's candidate texts in order, and none for a rule without
\* candidates, which is in the result with no scores and is not the winner.
C29_NoEmptyScorerCall ==
  last.kind = "evaluate" =>
    /\ \A k \in 1..Len(ScorerCalls) : Len(ScorerCalls[k].candidates) >= 1
    /\ Evaluated =>
         /\ Len(ScorerCalls) = Len(RulesWithCandidates)
         /\ \A k \in 1..Len(ScorerCalls) :
              LET p == RulesWithCandidates[k]
                  n == Len(graph.edges[p[1]].rules[p[2]].matchCandidates)
              IN  /\ ScorerCalls[k].edge = p[1]
                  /\ ScorerCalls[k].rule = p[2]
                  /\ ScorerCalls[k].candidates = [i \in 1..n |-> i]
         /\ Len(Scored) = Len(semanticRulesFrom(graph, last.outEdges, 1))
         /\ \A j \in 1..Len(Scored) :
              Len(CandidatesOf(j)) = 0 =>
                 /\ Scored[j].scoredCandidates = <<>>
                 /\ ~Scored[j].chosen
                 /\ ~Won(j)

\* A rule without candidates was recorded, and the rule after it on the same
\* edge, the second of the two the scorer was called for, has won.
C29_Witness ==
  /\ Evaluated
  /\ Len(ScorerCalls) = 2
  /\ \E j \in 1..Len(Scored) :
        /\ Len(CandidatesOf(j)) = 0
        /\ j + 1 \in 1..Len(Scored)
        /\ Scored[j + 1].edge = Scored[j].edge
        /\ Won(j + 1)

(***************************************************************************)
(* C30: the first fallback wins.                                           *)
(***************************************************************************)
\* The repeated fail rules of the node the last evaluate call was at, edge by
\* edge and rule by rule, and those among them the attempts so far satisfy:
\* attemptNumber is the call's own attempt counted in.
Fallbacks == repeatedFailRules(pre.node, graph)
Satisfied(j) ==
  pre.attemptNumber + 1
    >= graph.edges[Fallbacks[j][1]].rules[Fallbacks[j][2]].failCount
NoSemanticWin == ~TookRuleOfType("SEMANTIC_MATCH")

\* C30: when no semantic match rule wins and repeated fail rules of the node
\* satisfy attemptNumber >= failCount, whatever their failCount, the result's
\* edge and rule are those of the first of them in edge-then-rule order.
C30_FirstFallbackWins ==
  (Evaluated /\ NoSemanticWin) =>
     \A j \in 1..Len(Fallbacks) :
        (Satisfied(j) /\ \A k \in 1..(j - 1) : ~Satisfied(k)) =>
           /\ res.edge = Fallbacks[j][1]
           /\ res.rule = Fallbacks[j][2]
           /\ res.state.node = graph.edges[Fallbacks[j][1]].target

(***************************************************************************)
(* C31: semantic precedence over the fallback.                             *)
(***************************************************************************)
\* A repeated fail rule of a RepeatedFail-only edge of the node is satisfied by
\* the attempts so far, the call's own counted in.
FallbackDue == \E j \in 1..Len(Fallbacks) : Satisfied(j)

\* C31: when a semantic match rule qualifies above the threshold, the edge
\* taken is that of a rule above the threshold, marked chosen, also when the
\* attempts satisfy a repeated fail rule of the node; a repeated fail rule is
\* taken only when no semantic match rule qualifies above the threshold.
C31_SemanticBeforeFallback ==
  Evaluated =>
     /\ AboveThreshold # {} =>
           /\ TookRuleOfType("SEMANTIC_MATCH")
           /\ \E j \in AboveThreshold : Won(j) /\ Scored[j].chosen
     /\ TookRuleOfType("REPEATED_FAIL") => AboveThreshold = {}

(***************************************************************************)
(* C32: the evaluation record.                                             *)
(***************************************************************************)
\* The semantic match rules of the eligible out edges of the last evaluate
\* call, edge by edge and rule by rule.
EligibleSemanticRules == semanticRulesFrom(graph, last.outEdges, 1)

\* C32: the scoredSemanticMatchRules of a result has one entry per semantic
\* match rule of the eligible out edges, in edge-then-rule order, each with
\* one scored candidate per candidate of the rule, in the rule's order, with
\* the score the scorer gave it; at most one entry is chosen, an entry is
\* chosen iff its rule is the rule the result returns, and none is chosen when
\* the result returns a repeated fail rule or no edge.
C32_EvaluationRecord ==
  Evaluated =>
     /\ Len(Scored) = Len(EligibleSemanticRules)
     /\ \A j \in 1..Len(Scored) :
          /\ Scored[j].edge = EligibleSemanticRules[j][1]
          /\ Scored[j].rule = EligibleSemanticRules[j][2]
          /\ Len(Scored[j].scoredCandidates) = Len(CandidatesOf(j))
          /\ \A i \in 1..Len(CandidatesOf(j)) :
               /\ Scored[j].scoredCandidates[i].candidate = i
               /\ Scored[j].scoredCandidates[i].score = last.scores[j][i]
          /\ Scored[j].chosen <=> Won(j)
     /\ \A j, k \in 1..Len(Scored) :
          (Scored[j].chosen /\ Scored[k].chosen) => j = k
     /\ ~TookRuleOfType("SEMANTIC_MATCH") =>
          \A j \in 1..Len(Scored) : ~Scored[j].chosen

\* A record of three rules, one of two candidates and one of none, whose
\* third entry is the chosen one.
C32_Witness ==
  /\ Evaluated
  /\ Len(Scored) = 3
  /\ Scored[3].chosen
  /\ \E j \in 1..Len(Scored) : Len(Scored[j].scoredCandidates) = 2
  /\ \E j \in 1..Len(Scored) : Len(Scored[j].scoredCandidates) = 0

(***************************************************************************)
(* C33: the top-score candidate.                                           *)
(***************************************************************************)
\* The j-th semantic match rule the last evaluate call got a score list for,
\* and what checkSemanticMatchRule makes of that list.
ScoredRule(j) ==
  graph.edges[EligibleSemanticRules[j][1]].rules[EligibleSemanticRules[j][2]]
Checked(j) == checkSemanticMatchRule(ScoredRule(j), last.scores[j])

\* C33: for every semantic match rule with a candidate and every score list
\* the scorer gives for it, checkSemanticMatchRule completes, the one scored
\* candidate with topScore is the one at the first index holding the maximum
\* score, and the rule qualifies iff that candidate is not an anti-example.
C33_TopScoreCandidate ==
  (last.kind = "evaluate" /\ modelReady) =>
     \A j \in 1..Len(last.scores) :
        Len(ScoredRule(j).matchCandidates) >= 1 =>
           /\ ~Checked(j).threw
           /\ \A i \in 1..Len(ScoredRule(j).matchCandidates) :
                Checked(j).scoredCandidates[i].topScore
                  <=> i = FirstMaxIndex(last.scores[j])
           /\ Checked(j).maxScore.isNull
                <=> ScoredRule(j).matchCandidates[FirstMaxIndex(last.scores[j])]
                      .antiExample

(***************************************************************************)
(* C35: bidirectional edges.                                               *)
(***************************************************************************)
\* C35: a drag from a node to another adds no edge when the graph has the
\* edge from the second to the first, so that the graph never has two edges
\* of which one is the reverse of the other.
C35_NoBidirectionalEdges ==
  Editing =>
    /\ \A i, j \in 1..Len(editor.graph.edges) :
          ~ (/\ editor.graph.edges[i].source = editor.graph.edges[j].target
             /\ editor.graph.edges[i].target = editor.graph.edges[j].source)
    /\ (/\ editor.op.kind \in {"createEdge", "refused"}
        /\ \E i \in 1..Len(editor.op.before.edges) :
              /\ editor.op.before.edges[i].source = editor.op.edge.target
              /\ editor.op.before.edges[i].target = editor.op.edge.source)
       => editor.graph = editor.op.before

(***************************************************************************)
(* C37: the order within a level.                                          *)
(***************************************************************************)
\* The turn of the while loop that dequeued the node for the first time.
FirstDequeue(id) ==
  CHOOSE i \in 1..Len(layoutRun.dequeued) :
    /\ layoutRun.dequeued[i] = id
    /\ \A k \in 1..(i - 1) : layoutRun.dequeued[k] # id

\* The place of the node's id in the list of its level.
PlaceInLevel(levels, id) ==
  CHOOSE p \in {<<i, k>> : i \in 1..Len(levels), k \in 1..MaxLayoutNodes} :
    /\ p[2] <= Len(levels[p[1]])
    /\ levels[p[1]][p[2]] = id

\* The first edge of the graph's list from the source to the target.
FirstEdge(g, source, target) ==
  CHOOSE e \in 1..Len(g.edges) :
    /\ g.edges[e].source = source /\ g.edges[e].target = target
    /\ \A o \in 1..(e - 1) :
          ~ (g.edges[o].source = source /\ g.edges[o].target = target)

\* Every edge to the target comes from the source, and there is one.
OnlySource(g, source, target) ==
  /\ \E e \in 1..Len(g.edges) : g.edges[e].target = target
  /\ \A e \in 1..Len(g.edges) :
        g.edges[e].target = target => g.edges[e].source = source

\* C37: in a layout dagLayout returns, the ids of a level are in the order in
\* which the traversal dequeued their nodes for the first time; two nodes of
\* one level that are targets of one source only are in the order of that
\* source's edges in the graph's edge list.
C37_DiscoveryOrderInLevel ==
  (Returned /\ ~layoutRun.result.isNull) =>
     LET levels == layoutRun.result.levels
         g == layoutRun.graph
     IN  /\ \A i \in 1..Len(levels) :
              \A a, b \in 1..Len(levels[i]) :
                 a < b => FirstDequeue(levels[i][a]) < FirstDequeue(levels[i][b])
         /\ \A s, t, u \in 1..Len(g.nodes) :
              (/\ t # u
               /\ OnlySource(g, s, t)
               /\ OnlySource(g, s, u)
               /\ FirstEdge(g, s, t) < FirstEdge(g, s, u))
              => /\ PlaceInLevel(levels, t)[1] = PlaceInLevel(levels, u)[1]
                 /\ PlaceInLevel(levels, t)[2] < PlaceInLevel(levels, u)[2]

\* Node 2 was dequeued first, then node 3, then node 2 again (the graph has
\* 1 -> 2 twice, around 1 -> 3), and the level reads [2, 3].
C37_Witness ==
  /\ Returned
  /\ layoutRun.dequeued = <<1, 2, 3, 2>>
  /\ layoutRun.result = Levels(<<<<1>>, <<2, 3>>>>)

(***************************************************************************)
(* C38: the structure of a layout.                                         *)
(***************************************************************************)
\* C38: in a layout dagLayout returns, every node id of the graph is in one
\* level list and in one place of it, level 0 is [start], no level list is
\* empty, and every edge's target is in a level after its source's.
C38_LayoutStructure ==
  (Returned /\ ~layoutRun.result.isNull) =>
     LET levels == layoutRun.result.levels
         g == layoutRun.graph
         places(id) == {<<i, k>> \in (1..Len(levels)) \X (1..Len(g.nodes)) :
                          k <= Len(levels[i]) /\ levels[i][k] = id}
     IN  /\ \A n \in 1..Len(g.nodes) : Cardinality(places(g.nodes[n].id)) = 1
         /\ Len(levels) >= 1
         /\ levels[1] = <<g.start>>
         /\ \A i \in 1..Len(levels) : Len(levels[i]) >= 1
         /\ \A e \in 1..Len(g.edges) :
              PlaceInLevel(levels, g.edges[e].source)[1]
                < PlaceInLevel(levels, g.edges[e].target)[1]

\* A layout of three levels for a graph of three edges.
C38_Witness ==
  /\ Returned
  /\ ~layoutRun.result.isNull
  /\ Len(layoutRun.result.levels) = 3
  /\ Len(layoutRun.graph.edges) = 3

(***************************************************************************)
(* C36: applyTreeLayout.                                                   *)
(***************************************************************************)
\* The node of the graph with the id.
NodeOfId(g, id) == g.nodes[CHOOSE n \in 1..Len(g.nodes) : g.nodes[n].id = id]

\* C36: when dagLayout returns null, applyTreeLayout leaves the fx and fy of
\* every node and the lists of nodes and edges as they were; when it returns
\* levels, the lists keep their nodes and edges, every node is placed, the
\* nodes of a level share one fy and differ in fx, and the fy of a level is
\* below that of the next.
C36_LayoutBlockedOnNull ==
  layoutRun.phase = "applied" =>
     LET g == layoutRun.graph
         before == LayoutGraph(g.start, Len(g.nodes), g.edges)
         levels == layoutRun.result.levels
     IN  IF layoutRun.result.isNull
           THEN g = before
           ELSE /\ \A n \in 1..Len(g.nodes) :
                     /\ g.nodes[n].id = before.nodes[n].id
                     /\ \E i \in 1..Len(levels) : \E k \in 1..Len(levels[i]) :
                           levels[i][k] = g.nodes[n].id
                /\ \A i \in 1..Len(levels) :
                     \A a, b \in 1..Len(levels[i]) :
                        /\ NodeOfId(g, levels[i][a]).fy
                             = NodeOfId(g, levels[i][b]).fy
                        /\ a # b => NodeOfId(g, levels[i][a]).fx
                                      # NodeOfId(g, levels[i][b]).fx
                /\ \A i \in 1..(Len(levels) - 1) :
                     NodeOfId(g, levels[i][1]).fy
                       < NodeOfId(g, levels[i + 1][1]).fy

\* applyTreeLayout has placed a graph of two levels, two nodes in the second.
C36_Witness ==
  /\ layoutRun.phase = "applied"
  /\ ~layoutRun.result.isNull
  /\ Len(layoutRun.result.levels) = 2
  /\ Len(layoutRun.result.levels[2]) = 2
  /\ layoutRun.graph.nodes[1].fy # layoutRun.graph.nodes[2].fy

(***************************************************************************)
(* components/preview/dialog_preview.ts, with the InferenceState objects   *)
(* held by reference: this.inferenceState and this.initialInferenceState   *)
(* name objects, the loop of autoAdvanceAsNeeded writes to the object      *)
(* this.inferenceState names, and restart copies an object.                *)
(***************************************************************************)
MaxAutoNodes == 3
MaxAutoEdges == 2

\* The objects that can be referred to at one time: the one
\* this.initialInferenceState names and the one this.inferenceState names.
ObjectRefs == {"o1", "o2"}

\* ngOnInit, up to its call of autoAdvanceAsNeeded: two objects, each with a
\* Map of its own.
ngOnInit(node) ==
  [objects |-> [r \in ObjectRefs |->
                  [node |-> node, attemptNumber |-> 0,
                   world |-> IF r = "o1" THEN "session" ELSE "initial"]],
   maps |-> [r \in WorldRefs |-> EmptyWorld],
   inferenceState |-> "o1",
   initialInferenceState |-> "o2",
   finished |-> FALSE,
   pc |-> "ngOnInit",
   event |-> "loaded",
   loaded |-> node]

autoAdvanceTurn_StaysOnTheNode(p, edge) ==
  [p EXCEPT !.maps[p.objects[p.inferenceState].world] = applyMutations(@, edge),
            !.event = "advanced"]

\* One turn of the loop of autoAdvanceAsNeeded, once pickRandom gave the edge:
\* the Map of the current object takes the edge's mutations, and the node of
\* the current object is assigned in place.
autoAdvanceTurn(p, edge) ==
  [p EXCEPT !.maps[p.objects[p.inferenceState].world] = applyMutations(@, edge),
            !.objects[p.inferenceState].node = edge.target,
            !.event = "advanced"]

restart_SameObject(p) ==
  [p EXCEPT !.finished = FALSE,
            !.inferenceState = p.initialInferenceState,
            !.pc = "restart",
            !.event = "restarted"]

\* restart, up to its call of autoAdvanceAsNeeded: this.inferenceState names a
\* new object with the properties of the initial one (its Map included, by
\* reference).  The new object takes the place of the one nothing names any
\* more.
restart(p) ==
  LET new == CHOOSE r \in ObjectRefs : r # p.initialInferenceState
  IN  [p EXCEPT !.finished = FALSE,
                !.objects[new] = p.objects[p.initialInferenceState],
                !.inferenceState = new,
                !.pc = "restart",
                !.event = "restarted"]

\* The loop of autoAdvanceAsNeeded tests its condition and runs one turn:
\* pickRandom returns any of the edges, and no edge is the dead-end error.
DialogAdvance ==
  /\ dialogPreview.pc # "idle"
  /\ LET state == dialogPreview.objects[dialogPreview.inferenceState]
         edges == getOutEdges(state.node, graph,
                              Supplied(dialogPreview.maps[state.world]))
     IN  /\ graph.nodes[state.node].autoAdvance
         /\ IF Len(edges) = 0
              THEN dialogPreview' = [dialogPreview EXCEPT !.pc = "idle",
                                                          !.event = "deadEnd"]
              ELSE \E i \in 1..Len(edges) :
                     dialogPreview' =
                       autoAdvanceTurn(dialogPreview, graph.edges[edges[i]])
  /\ UNCHANGED <<graph, threshold, modelReady, worlds, inferenceState,
                 initialInferenceState, finished, loadingResults, pc, calls,
                 last, mutationRun, layoutRun, serializationRun, editor,
                 taskVars>>

\* autoAdvanceAsNeeded returns, and the handler that called it runs to its end.
DialogReturn ==
  /\ dialogPreview.pc # "idle"
  /\ LET state == dialogPreview.objects[dialogPreview.inferenceState]
     IN  /\ ~graph.nodes[state.node].autoAdvance
         /\ dialogPreview' =
              [dialogPreview EXCEPT
                 !.finished = IF /\ dialogPreview.pc = "submitUtterance"
                                 /\ isLeafNode(state, dialogPreview.maps)
                                THEN TRUE ELSE @,
                 !.pc = "idle",
                 !.event = "returned"]
  /\ UNCHANGED <<graph, threshold, modelReady, worlds, inferenceState,
                 initialInferenceState, finished, loadingResults, pc, calls,
                 last, mutationRun, layoutRun, serializationRun, editor,
                 taskVars>>

\* submitUtterance, up to its call of autoAdvanceAsNeeded (or to its end): the
\* state evaluate returns is a new object, holding the Map it was given.
DialogSubmit ==
  /\ dialogPreview.pc = "idle"
  /\ LET cur == dialogPreview.objects[dialogPreview.inferenceState]
         state == deref(cur, dialogPreview.maps)
         new == CHOOSE r \in ObjectRefs :
                  r # dialogPreview.initialInferenceState
     IN  /\ cur.attemptNumber < MaxAttempts
         /\ \E answer \in ScorerAnswers(graph, semanticRules(state, graph),
                                        modelReady) :
              \E result \in {evaluate(state, graph, modelReady, threshold,
                                       answer.scores, answer.failAt)} :
                dialogPreview' =
                  IF result.threw
                    THEN [dialogPreview EXCEPT
                            !.maps[cur.world] = result.state.world.map,
                            !.event = "threw"]
                    ELSE [dialogPreview EXCEPT
                            !.maps[cur.world] = result.state.world.map,
                            !.objects[new] =
                               [node |-> result.state.node,
                                attemptNumber |-> result.state.attemptNumber,
                                world |-> cur.world],
                            !.inferenceState = new,
                            !.pc = IF result.edge # NoEdge
                                     THEN "submitUtterance" ELSE "idle",
                            !.event = "evaluated"]
  /\ UNCHANGED <<graph, threshold, modelReady, worlds, inferenceState,
                 initialInferenceState, finished, loadingResults, pc, calls,
                 last, mutationRun, layoutRun, serializationRun, editor,
                 taskVars>>

DialogRestart ==
  /\ dialogPreview.pc = "idle"
  /\ dialogPreview' = restart(dialogPreview)
  /\ UNCHANGED <<graph, threshold, modelReady, worlds, inferenceState,
                 initialInferenceState, finished, loadingResults, pc, calls,
                 last, mutationRun, layoutRun, serializationRun, editor,
                 taskVars>>

\* A preview of the graph of the handler-by-handler session, loaded at any of
\* its nodes.
DialogInit ==
  /\ graph = PreviewGraph
  /\ threshold = TFJS_THRESHOLD
  /\ modelReady = TRUE
  /\ worlds = [r \in WorldRefs |-> EmptyWorld]
  /\ inferenceState = NoState
  /\ initialInferenceState = NoState
  /\ finished = FALSE
  /\ loadingResults = FALSE
  /\ pc = "idle"
  /\ calls = 0
  /\ last = NoCall
  /\ mutationRun = NoRun
  /\ layoutRun = NoRun
  /\ serializationRun = NoRun
  /\ editor = NoRun
  /\ tasks = {}
  /\ started = 0
  /\ event = NoEvent
  /\ inputDisabledWhileLoading = FALSE
  /\ \E node \in 1..Len(PreviewGraph.nodes) : dialogPreview = ngOnInit(node)

DialogNext == DialogAdvance \/ DialogReturn \/ DialogSubmit \/ DialogRestart

DialogSpec == DialogInit /\ [][DialogNext]_vars

\* C39: whatever steps, auto-advance turns and restarts came before, the object
\* this.initialInferenceState names keeps the node given at load time and
\* attemptNumber 0, and restart leaves the session at that node with
\* attemptNumber 0 and finished unset.
C39_RestartResetsPosition ==
  LET initial == dialogPreview.objects[dialogPreview.initialInferenceState]
      current == dialogPreview.objects[dialogPreview.inferenceState]
  IN  /\ initial.node = dialogPreview.loaded
      /\ initial.attemptNumber = 0
      /\ dialogPreview.event = "restarted" =>
           /\ current.node = dialogPreview.loaded
           /\ current.attemptNumber = 0
           /\ ~dialogPreview.finished

\* A restart of a session loaded at an auto-advance node, after an earlier
\* restart whose auto-advance turn wrote to the Map both objects then shared.
C39_Witness ==
  /\ dialogPreview.event = "restarted"
  /\ graph.nodes[dialogPreview.loaded].autoAdvance
  /\ dialogPreview.maps["initial"] # EmptyWorld
  /\ dialogPreview.maps["session"] # EmptyWorld

(***************************************************************************)
(* autoAdvanceAsNeeded on every graph of MaxAutoNodes nodes, each            *)
(* auto-advance or not, and up to MaxAutoEdges edges without rules: an edge  *)
(* is plain, or has a condition and a mutation that lets it pass once.  The  *)
(* edges are listed in one order, which neither getOutEdges' filter nor      *)
(* pickRandom's choice depends on.  The loop starts at node 1.               *)
(***************************************************************************)
AutoAdvanceGraphs ==
  LET n == MaxAutoNodes
      choice(c) ==
        Edge((c \div (2 * n)) + 1, ((c \div 2) % n) + 1, <<>>,
             IF c % 2 = 0 THEN <<>> ELSE <<Forbid("k1", "a")>>,
             IF c % 2 = 0 THEN <<>> ELSE <<Add("k1", "a")>>)
      lists == UNION {{f \in [1..m -> 0..(2 * n * n - 1)] :
                         \A i \in 1..m, j \in 1..m : i < j => f[i] <= f[j]} :
                      m \in 0..MaxAutoEdges}
  IN  {[start |-> 1,
        nodes |-> [i \in 1..n |-> Node(i, auto[i])],
        edges |-> [i \in 1..Len(f) |-> choice(f[i])]] :
         auto \in [1..n -> BOOLEAN], f \in lists}

\* A call of autoAdvanceAsNeeded by submitUtterance, the session's Map being
\* empty or holding the value the conditions test.
AutoAdvanceInit ==
  /\ graph \in AutoAdvanceGraphs
  /\ threshold = TFJS_THRESHOLD
  /\ modelReady = TRUE
  /\ worlds = [r \in WorldRefs |-> EmptyWorld]
  /\ inferenceState = NoState
  /\ initialInferenceState = NoState
  /\ finished = FALSE
  /\ loadingResults = FALSE
  /\ pc = "idle"
  /\ calls = 0
  /\ last = NoCall
  /\ mutationRun = NoRun
  /\ layoutRun = NoRun
  /\ serializationRun = NoRun
  /\ editor = NoRun
  /\ tasks = {}
  /\ started = 0
  /\ event = NoEvent
  /\ inputDisabledWhileLoading = FALSE
  /\ \E w \in {EmptyWorld, [EmptyWorld EXCEPT !["k1"] = "a"]} :
       dialogPreview = [ngOnInit(1) EXCEPT !.maps["session"] = w,
                                           !.pc = "submitUtterance",
                                           !.event = "evaluated"]

AutoAdvanceNext == DialogAdvance \/ DialogReturn

AutoAdvanceSpec == AutoAdvanceInit /\ [][AutoAdvanceNext]_vars

\* There is a walk of k edges from the node that meets auto-advance nodes only.
RECURSIVE AutoWalk(_, _, _)
AutoWalk(g, node, k) ==
  /\ g.nodes[node].autoAdvance
  /\ \/ k = 0
     \/ \E i \in 1..Len(g.edges) :
          /\ g.edges[i].source = node
          /\ AutoWalk(g, g.edges[i].target, k - 1)

\* No directed cycle is made of auto-advance nodes only: a walk of as many
\* edges as there are nodes would meet one node twice.
NoAutoCycle(g) == \A node \in 1..Len(g.nodes) : ~AutoWalk(g, node, Len(g.nodes))

\* The number of auto-advance nodes on the longest such walk from the node.
AutoRank(g, node) ==
  Cardinality({k \in 0..Len(g.nodes) : AutoWalk(g, node, k)})

LoopNode(p) == p.objects[p.inferenceState].node

\* C34: on a graph without a directed cycle of auto-advance nodes the loop of
\* autoAdvanceAsNeeded always has a step to take, every turn after which the
\* loop goes on brings the session to a node from which fewer auto-advance
\* nodes can follow one another, so the loop ends within as many turns as
\* there are nodes; it ends at a node that is not auto-advance or, with the
\* dead-end error, at an auto-advance node no edge leaves under the world.
C34_AutoAdvanceTerminates ==
  /\ [](NoAutoCycle(graph) =>
          /\ dialogPreview.pc # "idle" => ENABLED AutoAdvanceNext
          /\ dialogPreview.event = "returned" =>
               /\ dialogPreview.pc = "idle"
               /\ ~graph.nodes[LoopNode(dialogPreview)].autoAdvance
          /\ dialogPreview.event = "deadEnd" =>
               /\ dialogPreview.pc = "idle"
               /\ graph.nodes[LoopNode(dialogPreview)].autoAdvance
               /\ isLeafNode(dialogPreview.objects[dialogPreview.inferenceState],
                             dialogPreview.maps))
  /\ [][(NoAutoCycle(graph) /\ dialogPreview'.pc # "idle") =>
          AutoRank(graph, LoopNode(dialogPreview')) <
            AutoRank(graph, LoopNode(dialogPreview))]_vars

\* The loop ended at a node that is not auto-advance after two turns through
\* auto-advance nodes, the first over an edge that passes once.
C34_Witness ==
  /\ NoAutoCycle(graph)
  /\ dialogPreview.event = "returned"
  /\ LoopNode(dialogPreview) = 3
  /\ graph.nodes[1].autoAdvance
  /\ graph.nodes[2].autoAdvance
  /\ dialogPreview.maps["session"]["k1"] = "a"
  /\ \A i \in 1..Len(graph.edges) :
       /\ graph.edges[i].target # 1
       /\ graph.edges[i].source = 1 =>
            graph.edges[i].target = 2 /\ graph.edges[i].mutations # <<>>

====
